---- MODULE Spec2Model ----
(***************************************************************************)
(* A model of the ingestion pipeline (services/ingestion.ts), the store it *)
(* writes to (services/prismaStore.ts), the tenant session                 *)
(* (services/waManager.ts, TenantSession) and the webhook dispatcher       *)
(* (services/waManager.ts, TenantManager.notifyWebhook).                   *)
(*                                                                         *)
(* Every await of the code is a point where another task may run, so each  *)
(* action is one synchronous segment of a handler: from where it resumes   *)
(* to its next await.  Wall-clock tests are nondeterministic choices.      *)
(***************************************************************************)
EXTENDS Integers, Sequences, FiniteSets, TLC

\* ------------------------------------------------------------------ bounds

\* enqueueMessage calls in one behaviour
MaxCalls == 2
\* INGEST_QUEUE_CAPACITY of the modelled deployment
QueueCapacity == 2
\* INGEST_BATCH_SIZE of the modelled deployment
BatchSize == 2
\* process crashes (kill -9) in one behaviour
MaxCrashes == 1
\* injected faults (failed log appends, store lock periods) in one behaviour
MaxFaults == 1
\* statements of the store the longest lock period makes fail
MaxLock == 6

\* ------------------------------------------------------- program constants

\* INGEST_WORKERS default
Workers == 2
\* INGEST_RETRY_MAX_ATTEMPTS default
MaxAttempts == 10
\* recursion ceiling of persistBatchSplitOnFailure
MaxSplitDepth == 20
\* the replay loop checkpoints every this many enqueues
CheckpointEvery == 1000

WorkerIds == 1..Workers

\* ---------------------------------------------------------------- messages

\* Strings the code takes apart are sequences of characters.
IdA == <<"A", "1">>
IdB == <<"B", "2">>
IdP == <<"P", "9">>
JidBob == <<"1", "5", "5", "5", "@", "s">>
JidEve == <<"1", "-", "7", "7", "@", "s">>

\* MessageInfo values the upstream can deliver: a message, the same id again
\* with another timestamp, a second sender, a record the database rejects,
\* a message without id and one without from.
MsgA1 == [id |-> IdA, from |-> JidBob, fromMe |-> FALSE, timestamp |-> 1]
MsgA2 == [id |-> IdA, from |-> JidBob, fromMe |-> FALSE, timestamp |-> 2]
MsgB == [id |-> IdB, from |-> JidEve, fromMe |-> FALSE, timestamp |-> 1]
MsgP == [id |-> IdP, from |-> JidBob, fromMe |-> FALSE, timestamp |-> 2]
MsgNoId == [id |-> <<>>, from |-> JidBob, fromMe |-> FALSE, timestamp |-> 1]
MsgNoFrom == [id |-> IdB, from |-> <<>>, fromMe |-> FALSE, timestamp |-> 1]

Msgs == {MsgA1, MsgA2, MsgB, MsgP, MsgNoId, MsgNoFrom}

\* ids whose message row the database rejects on every attempt
PoisonIds == {IdP}

\* computeIdempotencyKey without the "wa:" prefix
computeIdempotencyKeyBare(msg) == msg.id

computeIdempotencyKey(msg) == <<"w", "a", ":">> \o msg.id

Digit == <<"0", "1", "2", "3", "4", "5", "6", "7", "8", "9">>

\* String(n) of a number
RECURSIVE DecimalOf(_)
DecimalOf(n) ==
  IF n < 10 THEN <<Digit[n + 1]>>
  ELSE DecimalOf(n \div 10) \o <<Digit[(n % 10) + 1]>>

computeCorrelationId(msg) ==
  IF msg.id # <<>>
  THEN <<"c", "i", "d", ":">> \o msg.id
  ELSE <<"c", "i", "d", ":">> \o msg.from \o <<":">> \o DecimalOf(msg.timestamp)

\* ------------------------------------------------------------------- state

VARIABLES
  up,        \* the process is running (start() has run, no crash since)
  crashes,   \* crashes so far
  faults,    \* injected faults so far
  clock,     \* nowMs(), a logical clock
  logFile,   \* the durable log: a sequence of lines
  syncedLen, \* lines of logFile covered by the last fsync
  ckptFile,  \* content of the checkpoint file (a byte offset)
  dlqFile,   \* the dead-letter log: a sequence of entries
  store,     \* the database: [msgs: message rows, chats: chat rows]
  lockedFor, \* statements that will still fail with "database is locked"
  calls,     \* enqueueMessage calls, in the order they were started
  acked,     \* records whose enqueueMessage returned accepted=true
  buf,       \* AsyncBoundedQueue.buf
  ended,     \* AsyncBoundedQueue.ended
  waiters,   \* AsyncBoundedQueue.waiters: suspended workers, oldest first
  wpc,       \* where each worker is in workerLoop
  batch,     \* each worker's batch
  handed,    \* the item tryEnqueue resolved a suspended worker with
  rpc,       \* where the replay loop is
  rOffset,   \* startReplayLoop's offset
  rPos,      \* read position of the replay stream
  rPending,  \* the parsed record the replay loop is trying to enqueue
  ckptCur,   \* Checkpointer.currentOffset
  metrics,   \* Metrics counters
  hist       \* history of the queue and of the replay loop, kept when hist.on

ingestVars == <<up, crashes, faults, clock, logFile, syncedLen, ckptFile,
                dlqFile, store, lockedFor, calls, acked, buf, ended, waiters,
                wpc, batch, handed, rpc, rOffset, rPos, rPending, ckptCur,
                metrics, hist>>

\* the tenant session (TenantSession of waManager.ts)
VARIABLES
  sock,               \* this.sock: index into socks, 0 for null
  socks,              \* every socket makeWASocket has returned, with its handlers
  isConnected,        \* this.isConnected
  qr,                 \* this.qr, 0 for null
  sessionPath,        \* the session directory: "absent", "empty" or "creds"
  reconnectAttempts,  \* this.reconnectAttempts
  reconnects,         \* history: initialize(true) invocations so far
  connectionUpdateHandler, \* this.connectionUpdateHandler: the socket whose
                      \* waitForQR listener it holds, 0 for null
  logouts,            \* history: the reason of every handleLogout, in order
  logoutCall,         \* the logout() call: its position and its latest result
  sends               \* sendMessage invocations, in the order they were made

\* the fields of the session and the histories of its methods
sessFields == <<sock, socks, isConnected, qr, sessionPath, reconnectAttempts,
                reconnects, connectionUpdateHandler, logouts, logoutCall>>

sessVars == <<sessFields, sends>>

\* the webhook dispatcher and the messages.upsert handler (waManager.ts)
VARIABLES
  webhooks,           \* the tenant's rows of the webhooks table, oldest first
  excludedNumbers,    \* the tenant's rows of the excluded_numbers table
  handlers,           \* per enqueueMessage call, the handler callback awaiting it
  posts,              \* every fetch(url, {method: "POST"}) issued, in order
  upserts,            \* history: every messages.upsert event, in order
  backfill            \* the run of syncHistoryOnReconnect and its position

hookVars == <<webhooks, excludedNumbers, handlers, posts, upserts, backfill>>

vars == <<ingestVars, sessVars, hookVars>>

\* getOldestMessageAnchor returned null
NoAnchor == [id |-> <<>>, timestamp |-> 0]

\* no syncHistoryOnReconnect has run: listed are the jids listConversations
\* returned, todo those still ahead with the current one first, visited those
\* syncHistoryForChat has returned for; page, anchor and prevOldestId are the
\* locals of syncHistoryForChat, fetches counts its calls of
\* fetchMessageHistory, raised says that the last call threw.
NoBackfill ==
  [pc |-> "idle", runs |-> 0, listed |-> <<>>, todo |-> <<>>,
   visited |-> <<>>, page |-> 0, anchor |-> NoAnchor, prevOldestId |-> <<>>,
   fetches |-> 0, raised |-> FALSE]

NoRec == [idempotencyKey |-> <<>>, correlationId |-> <<>>, receivedAt |-> 0,
          payload |-> MsgNoId]

ZeroMetrics == [received |-> 0, enqueued |-> 0, persisted |-> 0, retried |-> 0,
                deadLettered |-> 0, log_append_failed |-> 0,
                replay_parse_error |-> 0]

\* -------------------------------------------------------------- durable log

\* JSON.stringify(record): the text of a line and its length in bytes.
JsonLine(record) ==
  [kind |-> "json", rec |-> record,
   len |-> 4 + Len(record.idempotencyKey) + Len(record.correlationId)
             + Len(record.payload.id) + Len(record.payload.from),
   nl |-> TRUE]

\* bytes a line takes in the file
FileBytes(line) == line.len + (IF line.nl THEN 1 ELSE 0)

RECURSIVE BytesOf(_)
BytesOf(lines) ==
  IF lines = <<>> THEN 0 ELSE FileBytes(Head(lines)) + BytesOf(Tail(lines))

\* AppendOnlyLog.sizeBytes
sizeBytes == BytesOf(logFile)

LineStart(i) == BytesOf(SubSeq(logFile, 1, i - 1))
LineEnd(i) == BytesOf(SubSeq(logFile, 1, i))

\* What readline yields at byte position pos (< sizeBytes): the line that starts
\* there, or the tail of the line pos falls into, which is no JSON text.
LineAt(pos) ==
  LET i == CHOOSE k \in 1..Len(logFile) : LineStart(k) <= pos /\ pos < LineEnd(k)
      whole == pos = LineStart(i)
      l == logFile[i]
  IN [kind |-> IF whole THEN l.kind ELSE "junk",
      rec |-> IF whole THEN l.rec ELSE NoRec,
      len |-> LineEnd(i) - pos - (IF l.nl THEN 1 ELSE 0),
      nl |-> l.nl]

\* the bytes of the line without its newline
lineBytesNoNewline(line) == line.len

\* Buffer.byteLength(line + "\n")
lineBytes(line) == line.len + 1

\* The file after a write of these bytes at its end (O_APPEND): behind an
\* unterminated line they run on in that line, which is then no JSON text.
writeBytes(file, line) ==
  IF file # <<>> /\ ~file[Len(file)].nl
  THEN [file EXCEPT ![Len(file)] =
          [kind |-> "junk", rec |-> NoRec, len |-> @.len + line.len,
           nl |-> line.nl]]
  ELSE Append(file, line)

\* the bytes of a line that a short write puts in the file, and the others
shortWrite(record) ==
  [kind |-> "junk", rec |-> record, len |-> JsonLine(record).len \div 2,
   nl |-> FALSE]

restOfWrite(record) ==
  [kind |-> "junk", rec |-> NoRec,
   len |-> JsonLine(record).len - JsonLine(record).len \div 2, nl |-> TRUE]

\* -------------------------------------------------------------------- queue

\* tryEnqueue without the test of the capacity
QueueAcceptsUnbounded == ~ended

\* AsyncBoundedQueue.tryEnqueue returns true
QueueAccepts == ~ended /\ Len(buf) < QueueCapacity

\* The history is what an observer of the queue, of the workers and of the
\* replay loop has seen since the process started: the items tryEnqueue returned
\* true for, in order; [item, to] for every item the queue gave a consumer, in
\* order; the records passed to persistBatchWithRetry; the records the replay
\* loop's tryEnqueue returned true for, in this process or an earlier one. It is kept in the
\* specifications whose initial state switches it on.
EmptyHistory(on) ==
  [on |-> on, accepted |-> <<>>, delivered |-> <<>>, flushed |-> {},
   replayed |-> {}]

histAccepts(h, item) ==
  IF h.on THEN [h EXCEPT !.accepted = Append(@, item)] ELSE h

histDelivers(h, item, w) ==
  IF h.on THEN [h EXCEPT !.delivered = Append(@, [item |-> item, to |-> w])]
  ELSE h

histFlushes(h, recs) ==
  IF h.on THEN [h EXCEPT !.flushed = @ \cup {recs[i] : i \in 1..Len(recs)}]
  ELSE h

histReplays(h, rec) ==
  IF h.on THEN [h EXCEPT !.replayed = @ \cup {rec}] ELSE h

\* tryEnqueue that resolves the waiter that suspended last
tryEnqueueNewestWaiter(h, item) ==
  IF QueueAccepts
  THEN IF waiters # <<>>
       THEN LET w == waiters[Len(waiters)] IN
            /\ buf' = Tail(Append(buf, item))
            /\ waiters' = SubSeq(waiters, 1, Len(waiters) - 1)
            /\ handed' = [handed EXCEPT ![w] = Head(Append(buf, item))]
            /\ wpc' = [wpc EXCEPT ![w] = "got"]
            /\ hist' = histDelivers(histAccepts(h, item),
                                    Head(Append(buf, item)), w)
       ELSE /\ buf' = Append(buf, item)
            /\ hist' = histAccepts(h, item)
            /\ UNCHANGED <<waiters, handed, wpc>>
  ELSE /\ hist' = h
       /\ UNCHANGED <<buf, waiters, handed, wpc>>

\* AsyncBoundedQueue.tryEnqueue(item) by a caller that notes what it did in the
\* history h: push, and resolve the oldest waiter with the head of the buffer.
tryEnqueueNoting(h, item) ==
  IF QueueAccepts
  THEN IF waiters # <<>>
       THEN /\ buf' = Tail(Append(buf, item))
            /\ waiters' = Tail(waiters)
            /\ handed' = [handed EXCEPT ![Head(waiters)] = Head(Append(buf, item))]
            /\ wpc' = [wpc EXCEPT ![Head(waiters)] = "got"]
            /\ hist' = histDelivers(histAccepts(h, item),
                                    Head(Append(buf, item)), Head(waiters))
       ELSE /\ buf' = Append(buf, item)
            /\ hist' = histAccepts(h, item)
            /\ UNCHANGED <<waiters, handed, wpc>>
  ELSE /\ hist' = h
       /\ UNCHANGED <<buf, waiters, handed, wpc>>

tryEnqueue(item) == tryEnqueueNoting(hist, item)

\* -------------------------------------------------------------------- store

NoErr == <<>>
\* error messages, as the words isTransientError looks for
ErrLocked == <<"database", "is", "locked">>
ErrPoison == <<"invalid", "input", "value">>

\* PrismaStore.upsertChatPartial as saveMessagesBatch calls it: create the chat
\* row, or overwrite lastMessageTimestamp when the message carries one.
upsertChatPartial(chats, jid, ts) ==
  IF \E c \in chats : c.jid = jid
  THEN {IF c.jid = jid /\ ts # 0
        THEN [c EXCEPT !.lastMessageTimestamp = ts] ELSE c : c \in chats}
  ELSE chats \cup {[jid |-> jid, lastMessageTimestamp |-> ts]}

\* messageUpsert as a plain insert that a duplicate id does not stop
messageInsertAlways(msgs, m) ==
  msgs \cup {[id |-> m.id, jid |-> m.from, timestamp |-> m.timestamp]}

\* prisma.message.upsert({where: {id}, update: {}, create: {...}})
messageUpsert(msgs, m) ==
  IF \E r \in msgs : r.id = m.id
  THEN msgs
  ELSE msgs \cup {[id |-> m.id, jid |-> m.from, timestamp |-> m.timestamp]}

\* The error of the message upsert of one message.
opError(m, locked) ==
  IF locked THEN ErrLocked
  ELSE IF m.id \in PoisonIds THEN ErrPoison ELSE NoErr

\* The operations of one saveMessagesBatch call (Promise.all over the messages;
\* each runs to its end whatever the others do): for every message the chat
\* upsert, whose error upsertChatPartial catches, and then the message upsert.
\* st.lockedFor statements still fail.  The rows afterwards and the rejection,
\* if any.
RECURSIVE batchOperations(_, _)
batchOperations(st, ms) ==
  IF ms = <<>>
  THEN [msgs |-> st.msgs, chats |-> st.chats, lockedFor |-> st.lockedFor,
        err |-> NoErr]
  ELSE LET m == Head(ms)
           chats1 == IF st.lockedFor > 0 THEN st.chats
                     ELSE upsertChatPartial(st.chats, m.from, m.timestamp)
           l1 == IF st.lockedFor > 0 THEN st.lockedFor - 1 ELSE 0
           e == opError(m, l1 > 0)
           l2 == IF l1 > 0 THEN l1 - 1 ELSE 0
           msgs1 == IF e = NoErr THEN messageUpsert(st.msgs, m) ELSE st.msgs
           rest == batchOperations(
                     [msgs |-> msgs1, chats |-> chats1, lockedFor |-> l2],
                     Tail(ms))
       IN [rest EXCEPT !.err = IF e # NoErr THEN e ELSE rest.err]

\* The catch block of saveMessagesBatch: the error is logged, the call returns.
saveMessagesBatchCatch(e) == NoErr

\* The state the persistence code threads through its calls.
\* ps = [msgs, chats, lockedFor, dlq, retried, deadLettered]
saveMessagesBatch(ps, ms) ==
  LET r == batchOperations(ps, ms)
  IN [ps |-> [ps EXCEPT !.msgs = r.msgs, !.chats = r.chats,
                        !.lockedFor = r.lockedFor],
      err |-> saveMessagesBatchCatch(r.err)]

\* ------------------------------------------------------------- persistence

Payloads(records) == [i \in 1..Len(records) |-> records[i].payload]

persistOnce(ps, records) == saveMessagesBatch(ps, Payloads(records))

isTransientError(err) ==
  \E i \in 1..Len(err) : err[i] \in {"busy", "locked", "timeout", "ioerr"}

writeToDlq(ps, rec, err) ==
  [ps EXCEPT !.dlq = Append(@, [record |-> rec, error |-> err]),
             !.deadLettered = @ + 1]

\* The while(true) of persistEachWithRetryOrDlq for one record; aged says
\* that now - receivedAt has reached maxHorizonMs.
RECURSIVE retryOrDlq(_, _, _, _)
retryOrDlq(ps, rec, attempt, aged) ==
  LET r == persistOnce(ps, <<rec>>) IN
  IF r.err = NoErr THEN r.ps
  ELSE LET ps1 == [r.ps EXCEPT !.retried = @ + 1] IN
       IF ~isTransientError(r.err) \/ attempt >= MaxAttempts \/ aged
       THEN writeToDlq(ps1, rec, r.err)
       ELSE retryOrDlq(ps1, rec, attempt + 1, aged)

RECURSIVE persistEachWithRetryOrDlq(_, _, _)
persistEachWithRetryOrDlq(ps, records, aged) ==
  IF records = <<>> THEN ps
  ELSE persistEachWithRetryOrDlq(retryOrDlq(ps, Head(records), 0, aged),
                                 Tail(records), aged)

RECURSIVE persistBatchSplitOnFailure(_, _, _, _)
persistBatchSplitOnFailure(ps, records, depth, aged) ==
  IF records = <<>> THEN ps
  ELSE LET r == persistOnce(ps, records) IN
       IF r.err = NoErr THEN r.ps
       ELSE IF ~isTransientError(r.err) \/ Len(records) = 1 \/ depth >= MaxSplitDepth
            THEN persistEachWithRetryOrDlq(r.ps, records, aged)
            ELSE LET mid == Len(records) \div 2
                     left == SubSeq(records, 1, mid)
                     right == SubSeq(records, mid + 1, Len(records))
                 IN persistBatchSplitOnFailure(
                      persistBatchSplitOnFailure(r.ps, left, depth + 1, aged),
                      right, depth + 1, aged)

\* persistBatchWithRetry: the result, and the records it counts as persisted
persistBatchWithRetry(ps, records, aged) ==
  [ps |-> persistBatchSplitOnFailure(ps, records, 0, aged),
   persisted |-> Len(records)]

\* --------------------------------------------------------- process lifecycle

\* IngestionService.start on a fresh process: the log is opened, the workers
\* start, and startReplayLoop loads the checkpoint, resets it to 0 when it lies
\* beyond the end of the log, and opens the stream there.
Start ==
  /\ ~up
  /\ up' = TRUE
  /\ LET off == IF ckptFile > sizeBytes THEN 0 ELSE ckptFile IN
     /\ rOffset' = off
     /\ rPos' = off
     /\ ckptFile' = off
     /\ ckptCur' = off
  /\ rpc' = "read"
  /\ wpc' = [w \in WorkerIds |-> "next"]
  /\ UNCHANGED <<crashes, faults, clock, logFile, syncedLen, dlqFile, store,
                 lockedFor, calls, acked, buf, ended, waiters, batch, handed, hist,
                 rPending, metrics>>
  /\ UNCHANGED <<sessVars, hookVars>>

\* The process is killed: everything in memory is gone, the files and the
\* database stay.
Crash ==
  /\ up
  /\ crashes < MaxCrashes
  /\ up' = FALSE
  /\ crashes' = crashes + 1
  /\ calls' = [c \in 1..Len(calls) |->
                 IF calls[c].pc = "done" THEN calls[c]
                 ELSE [calls[c] EXCEPT !.pc = "killed"]]
  /\ buf' = <<>>
  /\ ended' = FALSE
  /\ waiters' = <<>>
  /\ wpc' = [w \in WorkerIds |-> "off"]
  /\ batch' = [w \in WorkerIds |-> <<>>]
  /\ handed' = [w \in WorkerIds |-> NoRec]
  /\ hist' = [EmptyHistory(hist.on) EXCEPT !.replayed = hist.replayed]
  /\ rpc' = "off"
  /\ rOffset' = 0
  /\ rPos' = 0
  /\ rPending' = NoRec
  /\ ckptCur' = 0
  /\ metrics' = ZeroMetrics
  /\ handlers' = [c \in 1..Len(handlers) |->
                    IF handlers[c].pc \in {"none", "finished"} THEN handlers[c]
                    ELSE [handlers[c] EXCEPT !.pc = "killed"]]
  /\ UNCHANGED <<faults, clock, logFile, syncedLen, ckptFile, dlqFile, store,
                 lockedFor, acked>>
  /\ UNCHANGED <<sessVars, webhooks, excludedNumbers, upserts, posts, backfill>>

\* The database starts failing: its next n statements fail with "database is
\* locked".
StoreLocks(n) ==
  /\ faults < MaxFaults
  /\ lockedFor = 0
  /\ lockedFor' = n
  /\ faults' = faults + 1
  /\ UNCHANGED <<up, crashes, clock, logFile, syncedLen, ckptFile, dlqFile,
                 store, calls, acked, buf, ended, waiters, wpc, batch, handed, hist,
                 rpc, rOffset, rPos, rPending, ckptCur, metrics>>
  /\ UNCHANGED <<sessVars, hookVars>>

\* The log file is rotated or truncated from outside while the process is down
\* or the replay loop sleeps at the end of the file.
truncateLog ==
  /\ faults < MaxFaults
  /\ logFile # <<>>
  /\ ~up \/ rpc = "tail"
  /\ faults' = faults + 1
  /\ logFile' = <<>>
  /\ syncedLen' = 0
  /\ UNCHANGED <<up, crashes, clock, ckptFile, dlqFile, store, lockedFor,
                 calls, acked, buf, ended, waiters, wpc, batch, handed, hist, rpc,
                 rOffset, rPos, rPending, ckptCur, metrics>>
  /\ UNCHANGED <<sessVars, hookVars>>

\* ----------------------------------------------------------- enqueueMessage

NewCall(record) ==
  [pc |-> "append", rec |-> record, accepted |-> FALSE, reason |-> "",
   overflow |-> FALSE]

Rejected(record, why) ==
  [pc |-> "done", rec |-> record, accepted |-> FALSE, reason |-> why,
   overflow |-> FALSE]

RecordOf(msg, at) ==
  [idempotencyKey |-> computeIdempotencyKey(msg),
   correlationId |-> computeCorrelationId(msg),
   receivedAt |-> at, payload |-> msg]

\* startCall without the validation of id and from
startCallUnchecked(msg, at) == NewCall(RecordOf(msg, at))

\* enqueueMessage(msg) up to its first await: validation, the record, and the
\* call of log.append.
startCall(msg, at) ==
  IF msg.id = <<>> \/ msg.from = <<>>
  THEN Rejected(NoRec, "invalid_message")
  ELSE NewCall(RecordOf(msg, at))

\* no messages.upsert handler awaits a call made directly
NoHandler == [pc |-> "none", msg |-> NoRec.payload, deliveries |-> <<>>]

\* a direct call of ingestion.enqueueMessage(msg)
enqueueMessage(msg) ==
  /\ up
  /\ Len(calls) < MaxCalls
  /\ clock' = clock + 1
  /\ calls' = Append(calls, startCall(msg, clock + 1))
  /\ handlers' = Append(handlers, NoHandler)
  /\ UNCHANGED <<up, crashes, faults, logFile, syncedLen, ckptFile, dlqFile,
                 store, lockedFor, acked, buf, ended, waiters, wpc, batch,
                 handed, hist, rpc, rOffset, rPos, rPending, ckptCur, metrics>>
  /\ UNCHANGED <<sessVars, webhooks, excludedNumbers, upserts, posts, backfill>>

appendFile(c) ==
  /\ up
  /\ calls[c].pc = "append"
  /\ logFile' = writeBytes(logFile, JsonLine(calls[c].rec))
  /\ calls' = [calls EXCEPT ![c].pc = "sync"]
  /\ UNCHANGED <<up, crashes, faults, clock, syncedLen, ckptFile, dlqFile,
                 store, lockedFor, acked, buf, ended, waiters, wpc, batch,
                 handed, hist, rpc, rOffset, rPos, rPending, ckptCur, metrics>>
  /\ UNCHANGED <<sessVars, hookVars>>

\* fd.appendFile whose first write is short: half of the line is in the file,
\* the loop of writes goes on with the rest
appendFileShort(c) ==
  /\ up
  /\ calls[c].pc = "append"
  /\ logFile' = writeBytes(logFile, shortWrite(calls[c].rec))
  /\ calls' = [calls EXCEPT ![c].pc = "rest"]
  /\ UNCHANGED <<up, crashes, faults, clock, syncedLen, ckptFile, dlqFile,
                 store, lockedFor, acked, buf, ended, waiters, wpc, batch,
                 handed, hist, rpc, rOffset, rPos, rPending, ckptCur, metrics>>
  /\ UNCHANGED <<sessVars, hookVars>>

\* the rest of a line whose first write was short
appendFileRest(c) ==
  /\ up
  /\ calls[c].pc = "rest"
  /\ logFile' = IF logFile[Len(logFile)] = shortWrite(calls[c].rec)
                THEN [logFile EXCEPT ![Len(logFile)] = JsonLine(calls[c].rec)]
                ELSE writeBytes(logFile, restOfWrite(calls[c].rec))
  /\ calls' = [calls EXCEPT ![c].pc = "sync"]
  /\ UNCHANGED <<up, crashes, faults, clock, syncedLen, ckptFile, dlqFile,
                 store, lockedFor, acked, buf, ended, waiters, wpc, batch,
                 handed, hist, rpc, rOffset, rPos, rPending, ckptCur, metrics>>
  /\ UNCHANGED <<sessVars, hookVars>>

\* AppendOnlyLog.append: fd.sync() completes.
sync(c) ==
  /\ up
  /\ calls[c].pc = "sync"
  /\ syncedLen' = Len(logFile)
  /\ calls' = [calls EXCEPT ![c].pc = "appended"]
  /\ UNCHANGED <<up, crashes, faults, clock, logFile, ckptFile, dlqFile, store,
                 lockedFor, acked, buf, ended, waiters, wpc, batch, handed, hist,
                 rpc, rOffset, rPos, rPending, ckptCur, metrics>>
  /\ UNCHANGED <<sessVars, hookVars>>

\* appendFails counting the message as received all the same
appendFailsCountsReceived(c) ==
  /\ up
  /\ calls[c].pc \in {"append", "sync"}
  /\ faults < MaxFaults
  /\ faults' = faults + 1
  /\ calls' = [calls EXCEPT ![c] = Rejected(calls[c].rec, "log_append_failed")]
  /\ metrics' = [metrics EXCEPT !.log_append_failed = @ + 1, !.received = @ + 1]
  /\ UNCHANGED <<up, crashes, clock, logFile, syncedLen, ckptFile, dlqFile,
                 store, lockedFor, acked, buf, ended, waiters, wpc, batch,
                 handed, hist, rpc, rOffset, rPos, rPending, ckptCur>>
  /\ UNCHANGED <<sessVars, hookVars>>

\* log.append throws (the write or the fsync fails): the catch block of
\* enqueueMessage counts it and rejects.
appendFails(c) ==
  /\ up
  /\ calls[c].pc \in {"append", "sync"}
  /\ faults < MaxFaults
  /\ faults' = faults + 1
  /\ calls' = [calls EXCEPT ![c] = Rejected(calls[c].rec, "log_append_failed")]
  /\ metrics' = [metrics EXCEPT !.log_append_failed = @ + 1]
  /\ UNCHANGED <<up, crashes, clock, logFile, syncedLen, ckptFile, dlqFile,
                 store, lockedFor, acked, buf, ended, waiters, wpc, batch,
                 handed, hist, rpc, rOffset, rPos, rPending, ckptCur>>
  /\ UNCHANGED <<sessVars, hookVars>>

\* enqueueReturn counting enqueued whether or not the queue took the record
enqueueReturnCountsAlways(c) ==
  /\ up
  /\ calls[c].pc = "appended"
  /\ tryEnqueue(calls[c].rec)
  /\ metrics' = [metrics EXCEPT !.received = @ + 1, !.enqueued = @ + 1]
  /\ calls' = [calls EXCEPT ![c] = [@ EXCEPT !.pc = "done", !.accepted = TRUE,
                                             !.overflow = ~QueueAccepts]]
  /\ acked' = acked \cup {calls[c].rec}
  /\ UNCHANGED <<up, crashes, faults, clock, logFile, syncedLen, ckptFile,
                 dlqFile, store, lockedFor, ended, batch, rpc, rOffset, rPos,
                 rPending, ckptCur>>
  /\ UNCHANGED <<sessVars, hookVars>>

\* enqueueMessage after log.append has returned: received is counted, the record
\* is offered to the queue, and the call returns accepted=true.
enqueueReturn(c) ==
  /\ up
  /\ calls[c].pc = "appended"
  /\ tryEnqueue(calls[c].rec)
  /\ metrics' = [metrics EXCEPT !.received = @ + 1,
                                !.enqueued = IF QueueAccepts THEN @ + 1 ELSE @]
  /\ calls' = [calls EXCEPT ![c] = [@ EXCEPT !.pc = "done", !.accepted = TRUE,
                                             !.overflow = ~QueueAccepts]]
  /\ acked' = acked \cup {calls[c].rec}
  /\ UNCHANGED <<up, crashes, faults, clock, logFile, syncedLen, ckptFile,
                 dlqFile, store, lockedFor, ended, batch, rpc, rOffset, rPos,
                 rPending, ckptCur>>
  /\ UNCHANGED <<sessVars, hookVars>>

\* ------------------------------------------------------------------ workers

\* The body of workerLoop's for-await for one item; flushAge says that
\* nowMs() - lastFlush has reached batchMaxWaitMs.
workerTakes(w, item, flushAge) ==
  LET b == Append(batch[w], item) IN
  /\ batch' = [batch EXCEPT ![w] = b]
  /\ wpc' = [wpc EXCEPT ![w] = IF Len(b) >= BatchSize \/ flushAge
                               THEN "persist" ELSE "next"]

\* the iterator with the test of ended before the test of the buffer
workerNextEndFirst(w) ==
  /\ up
  /\ wpc[w] = "next"
  /\ IF ended
     THEN /\ wpc' = [wpc EXCEPT ![w] = "leftovers"]
          /\ UNCHANGED <<buf, waiters, batch, hist>>
     ELSE IF buf # <<>>
     THEN /\ \E flushAge \in BOOLEAN : workerTakes(w, Head(buf), flushAge)
          /\ buf' = Tail(buf)
          /\ hist' = histDelivers(hist, Head(buf), w)
          /\ UNCHANGED waiters
     ELSE /\ waiters' = Append(waiters, w)
          /\ wpc' = [wpc EXCEPT ![w] = "wait"]
          /\ UNCHANGED <<buf, batch, hist>>
  /\ UNCHANGED <<up, crashes, faults, clock, logFile, syncedLen, ckptFile,
                 dlqFile, store, lockedFor, calls, acked, ended, handed, rpc,
                 rOffset, rPos, rPending, ckptCur, metrics>>
  /\ UNCHANGED <<sessVars, hookVars>>

\* The queue's iterator is asked for the next item: the head of the buffer, or
\* the end of the stream, or the worker suspends.
workerNext(w) ==
  /\ up
  /\ wpc[w] = "next"
  /\ IF buf # <<>>
     THEN /\ \E flushAge \in BOOLEAN : workerTakes(w, Head(buf), flushAge)
          /\ buf' = Tail(buf)
          /\ hist' = histDelivers(hist, Head(buf), w)
          /\ UNCHANGED waiters
     ELSE IF ended
     THEN /\ wpc' = [wpc EXCEPT ![w] = "leftovers"]
          /\ UNCHANGED <<buf, waiters, batch, hist>>
     ELSE /\ waiters' = Append(waiters, w)
          /\ wpc' = [wpc EXCEPT ![w] = "wait"]
          /\ UNCHANGED <<buf, batch, hist>>
  /\ UNCHANGED <<up, crashes, faults, clock, logFile, syncedLen, ckptFile,
                 dlqFile, store, lockedFor, calls, acked, ended, handed, rpc,
                 rOffset, rPos, rPending, ckptCur, metrics>>
  /\ UNCHANGED <<sessVars, hookVars>>

\* A suspended worker resumes with the item tryEnqueue resolved it with.
workerResumes(w) ==
  /\ up
  /\ wpc[w] = "got"
  /\ \E flushAge \in BOOLEAN : workerTakes(w, handed[w], flushAge)
  /\ handed' = [handed EXCEPT ![w] = NoRec]
  /\ UNCHANGED <<up, crashes, faults, clock, logFile, syncedLen, ckptFile,
                 dlqFile, store, lockedFor, calls, acked, buf, ended, waiters,
                 rpc, rOffset, rPos, rPending, ckptCur, metrics, hist>>
  /\ UNCHANGED <<sessVars, hookVars>>

\* persistBatchWithRetry(batch.splice(0)), after which the worker is at pc;
\* aged says that the records have reached the retry horizon.
flush(w, pc) ==
  /\ \E aged \in BOOLEAN :
       LET r == persistBatchWithRetry(
                  [msgs |-> store.msgs, chats |-> store.chats,
                   lockedFor |-> lockedFor, dlq |-> dlqFile,
                   retried |-> metrics.retried,
                   deadLettered |-> metrics.deadLettered],
                  batch[w], aged)
       IN /\ store' = [msgs |-> r.ps.msgs, chats |-> r.ps.chats]
          /\ lockedFor' = r.ps.lockedFor
          /\ dlqFile' = r.ps.dlq
          /\ metrics' = [metrics EXCEPT !.retried = r.ps.retried,
                                        !.deadLettered = r.ps.deadLettered,
                                        !.persisted = @ + r.persisted]
  /\ batch' = [batch EXCEPT ![w] = <<>>]
  /\ wpc' = [wpc EXCEPT ![w] = pc]
  /\ hist' = histFlushes(hist, batch[w])

\* The flush in the loop: a batch that is full or old enough is persisted and
\* the worker asks the queue for the next item.
workerPersists(w) ==
  /\ up
  /\ wpc[w] = "persist"
  /\ flush(w, "next")
  /\ UNCHANGED <<up, crashes, faults, clock, logFile, syncedLen, ckptFile,
                 calls, acked, buf, ended, waiters, handed, rpc, rOffset, rPos,
                 rPending, ckptCur>>
  /\ UNCHANGED <<sessVars, hookVars>>

\* The queue has ended for this worker: it flushes what is left in its batch
\* and workerLoop returns.
workerLeftovers(w) ==
  /\ up
  /\ wpc[w] = "leftovers"
  /\ IF batch[w] # <<>>
     THEN flush(w, "returned")
     ELSE /\ wpc' = [wpc EXCEPT ![w] = "returned"]
          /\ UNCHANGED <<store, lockedFor, dlqFile, metrics, batch, hist>>
  /\ UNCHANGED <<up, crashes, faults, clock, logFile, syncedLen, ckptFile,
                 calls, acked, buf, ended, waiters, handed, rpc, rOffset, rPos,
                 rPending, ckptCur>>
  /\ UNCHANGED <<sessVars, hookVars>>

\* AsyncBoundedQueue.end(), called by the shutdown hook on SIGINT or SIGTERM:
\* every suspended worker is resolved with done.
shutdown ==
  /\ up
  /\ ~ended
  /\ ended' = TRUE
  /\ wpc' = [w \in WorkerIds |->
               IF \E i \in 1..Len(waiters) : waiters[i] = w
               THEN "leftovers" ELSE wpc[w]]
  /\ waiters' = <<>>
  /\ UNCHANGED <<up, crashes, faults, clock, logFile, syncedLen, ckptFile,
                 dlqFile, store, lockedFor, calls, acked, buf, batch, handed,
                 hist, rpc, rOffset, rPos, rPending, ckptCur, metrics>>
  /\ UNCHANGED <<sessVars, hookVars>>

\* The shutdown hook after its sleep: process.exit(0).
processExit == ended /\ Crash

\* ------------------------------------------------------------- replay loop

\* Checkpointer.save(offset)
save(offset) ==
  /\ ckptCur' = offset
  /\ ckptFile' = offset

\* One line of the stream: a blank line is skipped, an unparseable one is
\* counted, skipped and checkpointed, a record goes on to the enqueue loop.
replayLine ==
  /\ up
  /\ rpc = "read"
  /\ rPos < sizeBytes
  /\ LET line == LineAt(rPos) IN
     /\ rPos' = rPos + lineBytes(line)
     /\ IF line.kind = "blank"
        THEN /\ rOffset' = rOffset + lineBytes(line)
             /\ UNCHANGED <<rpc, rPending, ckptCur, ckptFile, metrics>>
        ELSE IF line.kind = "json"
        THEN /\ rpc' = "enqueue"
             /\ rPending' = line.rec
             /\ UNCHANGED <<rOffset, ckptCur, ckptFile, metrics>>
        ELSE /\ metrics' = [metrics EXCEPT !.replay_parse_error = @ + 1]
             /\ rOffset' = rOffset + lineBytes(line)
             /\ save(rOffset + lineBytes(line))
             /\ UNCHANGED <<rpc, rPending>>
  /\ UNCHANGED <<up, crashes, faults, clock, logFile, syncedLen, dlqFile,
                 store, lockedFor, calls, acked, buf, ended, waiters, wpc,
                 batch, handed, hist>>
  /\ UNCHANGED <<sessVars, hookVars>>

\* while (!tryEnqueue(rec)) sleep(50), then the offset moves past the line and
\* every CheckpointEvery-th enqueue saves it.
replayEnqueue ==
  /\ up
  /\ rpc = "enqueue"
  /\ QueueAccepts
  /\ tryEnqueueNoting(histReplays(hist, rPending), rPending)
  /\ metrics' = [metrics EXCEPT !.enqueued = @ + 1]
  /\ LET off == rOffset + lineBytes(JsonLine(rPending)) IN
     /\ rOffset' = off
     /\ IF (metrics.enqueued + 1) % CheckpointEvery = 0
        THEN save(off)
        ELSE UNCHANGED <<ckptCur, ckptFile>>
  /\ rpc' = "read"
  /\ rPending' = NoRec
  /\ UNCHANGED <<up, crashes, faults, clock, logFile, syncedLen, dlqFile,
                 store, lockedFor, calls, acked, ended, batch, rPos>>
  /\ UNCHANGED <<sessVars, hookVars>>

\* The same step when it is the CheckpointEvery-th enqueue and the write of the
\* checkpoint file fails: save has set currentOffset and throws inside the try
\* block, so the catch block counts a parse error, adds the bytes of the line
\* to offset again and saves, this time with success.
replayEnqueueSaveFails ==
  /\ up
  /\ rpc = "enqueue"
  /\ QueueAccepts
  /\ (metrics.enqueued + 1) % CheckpointEvery = 0
  /\ faults < MaxFaults
  /\ faults' = faults + 1
  /\ tryEnqueueNoting(histReplays(hist, rPending), rPending)
  /\ metrics' = [metrics EXCEPT !.enqueued = @ + 1,
                                !.replay_parse_error = @ + 1]
  /\ LET off == rOffset + lineBytes(JsonLine(rPending)) + lineBytes(JsonLine(rPending)) IN
     /\ rOffset' = off
     /\ save(off)
  /\ rpc' = "read"
  /\ rPending' = NoRec
  /\ UNCHANGED <<up, crashes, clock, logFile, syncedLen, dlqFile, store,
                 lockedFor, calls, acked, ended, batch, rPos>>
  /\ UNCHANGED <<sessVars, hookVars>>

\* The stream ends: the offset is saved, and the loop sleeps.
replayEof ==
  /\ up
  /\ rpc = "read"
  /\ rPos >= sizeBytes
  /\ save(rOffset)
  /\ rpc' = "tail"
  /\ UNCHANGED <<up, crashes, faults, clock, logFile, syncedLen, dlqFile,
                 store, lockedFor, calls, acked, buf, ended, waiters, wpc,
                 batch, handed, hist, rOffset, rPos, rPending, metrics>>
  /\ UNCHANGED <<sessVars, hookVars>>

\* After the sleep the loop opens a new stream at offset, whether the file grew
\* or not.
replayReopen ==
  /\ up
  /\ rpc = "tail"
  /\ rpc' = "read"
  /\ rPos' = rOffset
  /\ UNCHANGED <<up, crashes, faults, clock, logFile, syncedLen, ckptFile,
                 dlqFile, store, lockedFor, calls, acked, buf, ended, waiters,
                 wpc, batch, handed, hist, rOffset, rPending, ckptCur, metrics>>
  /\ UNCHANGED <<sessVars, hookVars>>

\* ------------------------------------------------------------ tenant session

\* at most this many sockets are created in a run
MaxSocks == 3

MAX_RECONNECT_ATTEMPTS == 5

\* lastDisconnect.error.output.statusCode; "undefined" when the error is no Boom
StatusCodes == {"loggedOut", "connectionClosed", "restartRequired", "undefined"}

QrCodes == {1, 2}

\* the status codes of a connection that was lost and of one that was logged out
ReconnectCodes == {"connectionClosed", "loggedOut"}

\* waitForQR has not resolved yet
Pending == -1

\* results of logout() and handleLogout()
NoResult == [success |-> FALSE, status |-> "none", reason |-> ""]
ErrorResult == [success |-> FALSE, status |-> "error", reason |-> ""]
LoggedOutResult(reason) ==
  [success |-> TRUE, status |-> "logged_out", reason |-> reason]

\* the fields of the session as one record, for the methods that call each other
Session ==
  [sock |-> sock, socks |-> socks, isConnected |-> isConnected, qr |-> qr,
   sessionPath |-> sessionPath, reconnectAttempts |-> reconnectAttempts,
   reconnects |-> reconnects,
   connectionUpdateHandler |-> connectionUpdateHandler,
   logouts |-> logouts, logoutCall |-> logoutCall]

\* handleLogout that leaves this.qr as it is
handleLogoutKeepsQr(st, reason) ==
  [st EXCEPT !.sessionPath = "absent", !.sock = 0, !.isConnected = FALSE,
             !.logouts = Append(@, reason)]

\* handleLogout(reason): the session directory is removed, the fields are
\* cleared and the connection webhook {logged_out, reason} is notified
handleLogout(st, reason) ==
  [st EXCEPT !.sessionPath = "absent", !.sock = 0, !.isConnected = FALSE,
             !.qr = 0, !.logouts = Append(@, reason)]

\* useMultiFileAuthState creates the directory; makeWASocket returns a socket
\* whose handlers capture isReconnecting; waitForQR arms its timer, stores its
\* listener in this.connectionUpdateHandler and registers it on the socket.
\* answer is what waitForQR resolved with (0 for null), result the status
\* initialize returned, first the first of qr, open and timeout to happen,
\* lastQr the pairing code upstream emitted last on the socket (0 for none).
makeWASocket(st, isReconnecting) ==
  [st EXCEPT !.sessionPath = IF @ = "absent" THEN "empty" ELSE @,
             !.socks = Append(@, [state |-> "connecting",
                                  isReconnecting |-> isReconnecting,
                                  waitsQr |-> TRUE,
                                  answer |-> Pending,
                                  result |-> "pending",
                                  first |-> "none",
                                  statusCode |-> "undefined",
                                  lastQr |-> 0]),
             !.sock = Len(st.socks) + 1,
             !.connectionUpdateHandler = Len(st.socks) + 1]

\* initialize that starts over after too many attempts without handleLogout
initializeKeepsSession(st, isReconnecting) ==
  IF isReconnecting
  THEN LET called == [st EXCEPT !.reconnects = @ + 1] IN
       IF called.sessionPath = "absent"
       THEN called
       ELSE IF called.reconnectAttempts + 1 > MAX_RECONNECT_ATTEMPTS
       THEN makeWASocket([called EXCEPT !.reconnectAttempts = 0], FALSE)
       ELSE makeWASocket([called EXCEPT !.reconnectAttempts = @ + 1], TRUE)
  ELSE makeWASocket([st EXCEPT !.reconnectAttempts = 0], FALSE)

\* initialize(isReconnecting) up to the await of waitForQR
initialize(st, isReconnecting) ==
  IF isReconnecting
  THEN LET called == [st EXCEPT !.reconnects = @ + 1] IN
       IF called.sessionPath = "absent"
       THEN called
       ELSE IF called.reconnectAttempts + 1 > MAX_RECONNECT_ATTEMPTS
       THEN makeWASocket(
              [handleLogout([called EXCEPT !.reconnectAttempts = @ + 1],
                            "max_attempts_exceeded")
                 EXCEPT !.reconnectAttempts = 0], FALSE)
       ELSE makeWASocket([called EXCEPT !.reconnectAttempts = @ + 1], TRUE)
  ELSE makeWASocket([st EXCEPT !.reconnectAttempts = 0], FALSE)

\* the fields of the session become those of the record
SessionBecomes(st) ==
  /\ sock' = st.sock
  /\ socks' = st.socks
  /\ isConnected' = st.isConnected
  /\ qr' = st.qr
  /\ sessionPath' = st.sessionPath
  /\ reconnectAttempts' = st.reconnectAttempts
  /\ reconnects' = st.reconnects
  /\ connectionUpdateHandler' = st.connectionUpdateHandler
  /\ logouts' = st.logouts
  /\ logoutCall' = st.logoutCall

\* TenantManager.initialize(username): the session's initialize(false)
initializeCall ==
  /\ SessionBecomes(initialize(Session, FALSE))
  /\ UNCHANGED <<sends, ingestVars, hookVars>>

\* creds.update on socket s: saveCreds writes the credentials to the directory
credsUpdate(s) ==
  /\ socks[s].state # "closed"
  /\ sessionPath = "empty"
  /\ sessionPath' = "creds"
  /\ UNCHANGED <<sock, socks, isConnected, qr, reconnectAttempts, reconnects,
                 connectionUpdateHandler, logouts, logoutCall,
                 sends, ingestVars, hookVars>>

\* the first of qr, open and timeout that happens to the waitForQR of socket w
noteFirst(st, w, event) ==
  IF st.socks[w].first = "none" THEN [st EXCEPT !.socks[w].first = event] ELSE st

\* cleanup() of a waitForQR call with its own timer cleared: the listener in
\* this.connectionUpdateHandler is taken off this.sock, and the field is nulled
cleanup(st) ==
  IF st.connectionUpdateHandler # 0 /\ st.sock # 0
  THEN [st EXCEPT !.socks[st.sock].waitsQr =
                     @ /\ st.connectionUpdateHandler # st.sock,
                  !.connectionUpdateHandler = 0]
  ELSE st

\* resolve(value) of the waitForQR of socket w, and initialize from line 459 on
resolve(st, w, value) ==
  IF st.socks[w].answer # Pending THEN st
  ELSE [st EXCEPT !.socks[w].answer = value,
                  !.socks[w].result = IF value # 0 THEN "waiting_qr"
                                      ELSE IF st.isConnected THEN "connected"
                                      ELSE "error"]

\* the listener of waitForQR on socket w receives an update with a qr
listenerQr(st, w, code) ==
  IF st.socks[w].waitsQr
  THEN resolve([cleanup(st) EXCEPT !.qr = code], w, code)
  ELSE st

\* the listener of waitForQR on socket w receives connection=open
listenerOpen(st, w) ==
  IF st.socks[w].waitsQr THEN resolve(cleanup(st), w, 0) ELSE st

\* connection.update {qr} on socket s: only the listener of waitForQR reads it
connectionQr(s, code) ==
  /\ socks[s].state = "connecting"
  /\ SessionBecomes(
       listenerQr(noteFirst([Session EXCEPT !.socks[s].lastQr = code], s, "qr"),
                  s, code))
  /\ UNCHANGED <<sends, ingestVars, hookVars>>

\* connection.update {connection: "open"} on socket s: the handler of
\* initialize, then the listener of waitForQR
connectionOpen(s) ==
  /\ socks[s].state = "connecting"
  /\ LET opened == [noteFirst(Session, s, "open")
                      EXCEPT !.socks[s].state = "open",
                             !.isConnected = TRUE,
                             !.qr = 0,
                             !.reconnectAttempts = 0]
     IN SessionBecomes(listenerOpen(opened, s))
  /\ UNCHANGED <<sends, ingestVars, hookVars>>

\* the session after the handler of connection.update {connection: "close"}
\* of socket s has run with this status code
afterClose(st, s, statusCode) ==
  IF st.isConnected /\ st.socks[s].isReconnecting
  THEN st
  ELSE IF statusCode # "loggedOut" /\ ~st.isConnected
  THEN initialize(st, TRUE)
  ELSE IF statusCode = "loggedOut"
  THEN initialize(handleLogout(st, "connection_closed"), FALSE)
  ELSE st

\* connection.update {connection: "close", lastDisconnect} on socket s
connectionClose(s, statusCode) ==
  /\ socks[s].state # "closed"
  /\ LET closed == [Session EXCEPT !.socks[s].state = "closed",
                                   !.socks[s].statusCode = statusCode]
     IN SessionBecomes(afterClose(closed, s, statusCode))
  /\ UNCHANGED <<sends, ingestVars, hookVars>>

\* the timer of the waitForQR of socket s fires: cleanup and resolve(null)
waitForQRTimeout(s) ==
  /\ socks[s].answer = Pending
  /\ SessionBecomes(resolve(cleanup(noteFirst(Session, s, "timeout")), s, 0))
  /\ UNCHANGED <<sends, ingestVars, hookVars>>

\* logout() up to its first await: without a socket it returns a failure,
\* with one it awaits sock.logout()
logout ==
  /\ logoutCall.pc = "idle"
  /\ logoutCall' = IF sock = 0
                   THEN [pc |-> "idle", result |-> ErrorResult]
                   ELSE [pc |-> "upstream", result |-> NoResult]
  /\ UNCHANGED <<sock, socks, isConnected, qr, sessionPath, reconnectAttempts,
                 reconnects, connectionUpdateHandler, logouts,
                 sends, ingestVars, hookVars>>

\* sock.logout() resolves: handleLogout("user_logout"), whose result is returned
logoutResolves ==
  /\ logoutCall.pc = "upstream"
  /\ SessionBecomes([handleLogout(Session, "user_logout")
                       EXCEPT !.logoutCall =
                         [pc |-> "idle",
                          result |-> LoggedOutResult("user_logout")]])
  /\ UNCHANGED <<sends, ingestVars, hookVars>>

\* sock.logout() rejects: the catch block returns a failure
logoutRejects ==
  /\ logoutCall.pc = "upstream"
  /\ logoutCall' = [pc |-> "idle", result |-> ErrorResult]
  /\ UNCHANGED <<sock, socks, isConnected, qr, sessionPath, reconnectAttempts,
                 reconnects, connectionUpdateHandler, logouts,
                 sends, ingestVars, hookVars>>

\* ---------------------------------------------------------------- sendMessage

\* at most this many sendMessage calls in a run
MaxSends == 1

\* recipients as the caller writes them: a bare number, a number with
\* punctuation, and a jid
Recipients == {<<"1", "5", "5", "5">>, <<"+", "1", "-", "7", "7">>, JidBob}

RECURSIVE digitsOf(_)
\* str.replace(/[^\d]/g, '')
digitsOf(str) ==
  IF str = <<>> THEN <<>>
  ELSE (IF \E i \in 1..10 : Digit[i] = Head(str) THEN <<Head(str)>> ELSE <<>>)
       \o digitsOf(Tail(str))

WhatsAppNet == <<"@", "s", ".", "w", "h", "a", "t", "s", "a", "p", "p", ".",
                 "n", "e", "t">>

\* the jid sendMessage addresses: a string without "@" becomes its digits and
\* "@s.whatsapp.net", unless it has no digit
normalizeJid(to) ==
  IF \E i \in 1..Len(to) : to[i] = "@" THEN to
  ELSE IF digitsOf(to) # <<>> THEN digitsOf(to) \o WhatsAppNet
  ELSE to

\* a sendMessage call that threw before it reached the socket
SendRefused ==
  [pc |-> "thrown", jid |-> <<>>, invoked |-> FALSE, open |-> FALSE,
   result |-> <<>>, call |-> 0]

\* a sendMessage call awaiting this.sock.sendMessage(jid, {text}); open records
\* whether the latest connection event of that socket was open
SendInvoked(to, st) ==
  [pc |-> "upstream", jid |-> normalizeJid(to), invoked |-> TRUE,
   open |-> st.socks[st.sock].state = "open", result |-> <<>>, call |-> 0]

\* sendMessage(to, message) up to its first await
startSend(to, st) ==
  IF ~st.isConnected THEN SendRefused
  ELSE IF st.sock = 0 THEN SendRefused
  ELSE SendInvoked(to, st)

sendMessage(to) ==
  /\ Len(sends) < MaxSends
  /\ sends' = Append(sends, startSend(to, Session))
  /\ UNCHANGED <<sessFields, ingestVars, hookVars>>

\* the MessageInfo sendMessage builds from the result of the socket
OutgoingInfo(id, jid) ==
  [id |-> id, from |-> jid, fromMe |-> TRUE, timestamp |-> 1]

\* this.sock.sendMessage resolves with key.id = id: the MessageInfo is handed
\* to ingestion.enqueueMessage
upstreamResolves(k, id) ==
  /\ sends[k].pc = "upstream"
  /\ up
  /\ Len(calls) < MaxCalls
  /\ clock' = clock + 1
  /\ calls' = Append(calls, startCall(OutgoingInfo(id, sends[k].jid), clock + 1))
  /\ handlers' = Append(handlers, NoHandler)
  /\ sends' = [sends EXCEPT ![k].pc = "enqueue", ![k].result = id,
                            ![k].call = Len(calls) + 1]
  /\ UNCHANGED <<up, crashes, faults, logFile, syncedLen, ckptFile, dlqFile,
                 store, lockedFor, acked, buf, ended, waiters, wpc, batch,
                 handed, hist, rpc, rOffset, rPos, rPending, ckptCur, metrics>>
  /\ UNCHANGED <<sessFields, webhooks, excludedNumbers, upserts, posts, backfill>>

\* this.sock.sendMessage rejects: the error is logged and thrown again
upstreamRejects(k) ==
  /\ sends[k].pc = "upstream"
  /\ sends' = [sends EXCEPT ![k].pc = "thrown"]
  /\ UNCHANGED <<sessFields, ingestVars, hookVars>>

\* enqueueMessage has returned, accepted or not: sendMessage returns the result
sendReturns(k) ==
  /\ sends[k].pc = "enqueue"
  /\ calls[sends[k].call].pc = "done"
  /\ sends' = [sends EXCEPT ![k].pc = "returned"]
  /\ UNCHANGED <<sessFields, ingestVars, hookVars>>

\* -------------------------------------------- messages.upsert and webhooks

\* at most this many messages reach the dispatcher in a run
MaxNotifyCalls == 1

Username == "alice"

SecretOne == <<"k", "1">>
SecretTwo == <<"k", "2">>
Secrets == {SecretOne, SecretTwo, <<>>}

\* the webhooks of the tenant with webhooks: two active, one inactive
Hooks ==
  << [id |-> "h1", secret |-> SecretOne, isActive |-> TRUE],
     [id |-> "h2", secret |-> SecretTwo, isActive |-> TRUE],
     [id |-> "h3", secret |-> SecretOne, isActive |-> FALSE] >>

PhoneBob == <<"+", "1", "5", "5", "5">>

HexDigits == <<"0", "1", "2", "3", "4", "5", "6", "7", "8", "9",
               "a", "b", "c", "d", "e", "f">>
UpperHexDigits == <<"0", "1", "2", "3", "4", "5", "6", "7", "8", "9",
                    "A", "B", "C", "D", "E", "F">>

\* the characters and words of the strings that are signed
Alphabet == HexDigits \o <<"k", "s", "@", "-", ",", "A", "B", "P",
                           "message.received", "alice", "h1", "h2", "h3">>

CharCode(ch) == CHOOSE i \in 1..Len(Alphabet) : Alphabet[i] = ch

RECURSIVE Absorb(_, _)
\* the digest state after these characters
Absorb(acc, text) ==
  IF text = <<>> THEN acc
  ELSE Absorb((acc * 31 + CharCode(Head(text))) % 65536, Tail(text))

\* crypto.createHmac('sha256', key).update(text).digest(): a keyed digest, here
\* of two bytes, that tells apart the keys and texts of the model
createHmacDigest(key, text) ==
  LET d == Absorb((Absorb(7, key) * 131 + 1) % 65536, text)
  IN <<d \div 256, d % 256>>

RECURSIVE digestHex(_)
\* digest('hex'): two lowercase hexadecimal digits a byte
digestHex(bytes) ==
  IF bytes = <<>> THEN <<>>
  ELSE <<HexDigits[(Head(bytes) \div 16) + 1], HexDigits[(Head(bytes) % 16) + 1]>>
       \o digestHex(Tail(bytes))

\* the value of a hexadecimal digit of either case, -1 for any other character
HexValue(ch) ==
  IF \E i \in 1..16 : HexDigits[i] = ch
  THEN (CHOOSE i \in 1..16 : HexDigits[i] = ch) - 1
  ELSE IF \E i \in 1..16 : UpperHexDigits[i] = ch
  THEN (CHOOSE i \in 1..16 : UpperHexDigits[i] = ch) - 1
  ELSE -1

RECURSIVE bufferFromHex(_)
\* Buffer.from(str, 'hex'): whole pairs of digits, up to the first that is none
bufferFromHex(str) ==
  IF Len(str) < 2 \/ HexValue(str[1]) < 0 \/ HexValue(str[2]) < 0 THEN <<>>
  ELSE <<HexValue(str[1]) * 16 + HexValue(str[2])>>
       \o bufferFromHex(SubSeq(str, 3, Len(str)))

RECURSIVE split(_, _)
\* str.split(sep)
split(str, sep) ==
  IF \A i \in 1..Len(str) : str[i] # sep THEN <<str>>
  ELSE LET i == CHOOSE k \in 1..Len(str) :
                  str[k] = sep /\ \A j \in 1..(k - 1) : str[j] # sep
       IN <<SubSeq(str, 1, i - 1)>> \o split(SubSeq(str, i + 1, Len(str)), sep)

Sha256Name == <<"s", "h", "a", "2", "5", "6">>

\* JSON.stringify({event, username, timestamp, data, webhook: {id, name, url}})
payloadOf(event, msg, webhook, at) ==
  <<event, ",", Username, ",">> \o DecimalOf(at) \o <<",">> \o msg.id
    \o <<",">> \o msg.from \o <<",">> \o DecimalOf(msg.timestamp)
    \o <<",", webhook.id>>

\* the signature of a payload bound for a webhook, every one under the secret of
\* the tenant's first webhook
hookSignatureFirstSecret(webhook, payload) ==
  digestHex(createHmacDigest(webhooks[1].secret, payload))

\* createHmac('sha256', webhook.secret || '').update(payload).digest('hex')
hookSignature(webhook, payload) ==
  digestHex(createHmacDigest(webhook.secret, payload))

\* WebhookVerifier(secret).verifySignature(payload, signature)
verifySignature(secret, payload, signature) ==
  LET parts == split(signature, "=") IN
  IF parts[1] # Sha256Name \/ Len(parts) < 2 THEN FALSE
  ELSE IF parts[2] = <<>> THEN FALSE
  ELSE LET expected == bufferFromHex(digestHex(createHmacDigest(secret, payload)))
           received == bufferFromHex(parts[2])
       IN IF Len(expected) # Len(received) THEN FALSE
          ELSE expected = received

\* extractPhoneNumber(jid): "+" and the digits before the "@"; <<>> for null
extractPhoneNumber(jid) ==
  IF jid = <<>> THEN <<>>
  ELSE LET cleanJid == split(jid, "@")[1] IN
       IF digitsOf(cleanJid) = <<>> THEN <<>>
       ELSE <<"+">> \o digitsOf(cleanJid)

\* a message of a messages.upsert event as the socket delivers it
RawOf(info, messageType) ==
  [key |-> [id |-> info.id, remoteJid |-> info.from, fromMe |-> info.fromMe],
   messageTimestamp |-> info.timestamp, messageType |-> messageType]

\* a messages.upsert event of type notify with these messages, all conversations
NotifyEvent(ms) ==
  [type |-> "notify",
   messages |-> [i \in 1..Len(ms) |-> RawOf(ms[i], "conversation")]]

\* the MessageInfo the handler builds from a message of the event
MessageInfoOf(raw) ==
  [id |-> raw.key.id, from |-> raw.key.remoteJid, fromMe |-> raw.key.fromMe,
   timestamp |-> raw.messageTimestamp]

RECURSIVE infosOf(_)
\* the MessageInfos of the messages that are no protocolMessage
infosOf(raws) ==
  IF raws = <<>> THEN <<>>
  ELSE (IF Head(raws).messageType = "protocolMessage" THEN <<>>
        ELSE <<MessageInfoOf(Head(raws))>>) \o infosOf(Tail(raws))

RECURSIVE infosOfAll(_)
\* infosOf without the test for protocolMessage
infosOfAll(raws) ==
  IF raws = <<>> THEN <<>>
  ELSE <<MessageInfoOf(Head(raws))>> \o infosOfAll(Tail(raws))

\* the messages of an event for which the handler starts a callback
notifyMessagesUnfiltered(m) ==
  IF m.type = "notify" THEN infosOfAll(m.messages) ELSE <<>>

\* the messages of an event for which the handler starts a callback
notifyMessages(m) ==
  IF m.type = "notify" THEN infosOf(m.messages) ELSE <<>>

\* the messages.upsert handler on event m: for a notify event the callbacks of
\* its messages run to their first await, the append of enqueueMessage
messagesUpsert(m) ==
  LET ms == notifyMessages(m) IN
  /\ up
  /\ Len(calls) + Len(ms) <= MaxCalls
  /\ upserts' = Append(upserts, m)
  /\ clock' = clock + Len(ms)
  /\ calls' = calls \o [i \in 1..Len(ms) |-> startCall(ms[i], clock + i)]
  /\ handlers' = handlers \o [i \in 1..Len(ms) |->
                    [pc |-> "enqueue", msg |-> ms[i], deliveries |-> <<>>]]
  /\ UNCHANGED <<up, crashes, faults, logFile, syncedLen, ckptFile, dlqFile,
                 store, lockedFor, acked, buf, ended, waiters, wpc, batch,
                 handed, hist, rpc, rOffset, rPos, rPending, ckptCur, metrics>>
  /\ UNCHANGED <<sessVars, webhooks, excludedNumbers, posts, backfill>>

\* the POST of one event to one webhook
postTo(c, h, event, msg) ==
  LET payload == payloadOf(event, msg, webhooks[h], clock) IN
  [call |-> c, webhook |-> h, event |-> event, from |-> msg.from,
   body |-> payload,
   signature |-> Sha256Name \o <<"=">> \o hookSignature(webhooks[h], payload)]

RECURSIVE postsToActive(_, _, _, _)
\* the POSTs of one event to the active webhooks from the h-th on, in order
postsToActive(c, h, event, msg) ==
  IF h > Len(webhooks) THEN <<>>
  ELSE (IF webhooks[h].isActive THEN <<postTo(c, h, event, msg)>> ELSE <<>>)
       \o postsToActive(c, h + 1, event, msg)

\* the callback of message c after enqueueMessage has answered:
\* notifyWebhook(username, "message.received", {message}) up to the await of
\* Promise.allSettled, every fetch issued
notifyWebhook(c) ==
  /\ handlers[c].pc = "enqueue"
  /\ calls[c].pc = "done"
  /\ IF \A h \in 1..Len(webhooks) : ~webhooks[h].isActive
     THEN /\ handlers' = [handlers EXCEPT ![c].pc = "finished"]
          /\ UNCHANGED posts
     ELSE /\ handlers' = [handlers EXCEPT
               ![c].pc = "notify",
               ![c].deliveries = [h \in 1..Len(webhooks) |->
                  IF webhooks[h].isActive THEN "pending" ELSE "skipped"]]
          /\ posts' = posts \o
               postsToActive(c, 1, "message.received", handlers[c].msg)
  /\ UNCHANGED <<ingestVars, sessVars, webhooks, excludedNumbers, upserts, backfill>>

FetchOutcomes == {"ok", "status", "error"}

\* fetchSettles posting once more to a webhook whose fetch has failed
fetchSettlesRetrying(c, h, outcome) ==
  /\ handlers[c].pc = "notify"
  /\ handlers[c].deliveries[h] = "pending"
  /\ IF outcome = "ok"
     THEN /\ handlers' = [handlers EXCEPT ![c].deliveries[h] = "ok"]
          /\ UNCHANGED posts
     ELSE /\ handlers' = [handlers EXCEPT ![c].deliveries[h] = "failed"]
          /\ posts' = Append(posts, postTo(c, h, "message.received",
                                           handlers[c].msg))
  /\ UNCHANGED <<ingestVars, sessVars, webhooks, excludedNumbers, upserts, backfill>>

\* the fetch to webhook h settles: a 2xx answer, another status, or an error;
\* the callback of the webhook logs and ends
fetchSettles(c, h, outcome) ==
  /\ handlers[c].pc = "notify"
  /\ handlers[c].deliveries[h] = "pending"
  /\ handlers' = [handlers EXCEPT ![c].deliveries[h] =
                    IF outcome = "ok" THEN "ok" ELSE "failed"]
  /\ UNCHANGED <<ingestVars, sessVars, webhooks, excludedNumbers, upserts, posts, backfill>>

\* Promise.allSettled resolves and notifyWebhook returns
notifyReturns(c) ==
  /\ handlers[c].pc = "notify"
  /\ \A h \in 1..Len(webhooks) : handlers[c].deliveries[h] # "pending"
  /\ handlers' = [handlers EXCEPT ![c].pc = "finished"]
  /\ UNCHANGED <<ingestVars, sessVars, webhooks, excludedNumbers, upserts, posts, backfill>>

\* ---------------------------------------------------------- specifications

InitPipeline ==
  /\ up = FALSE
  /\ crashes = 0
  /\ faults = 0
  /\ clock = 0
  /\ logFile = <<>>
  /\ syncedLen = 0
  /\ ckptFile = 0
  /\ dlqFile = <<>>
  /\ store = [msgs |-> {}, chats |-> {}]
  /\ lockedFor = 0
  /\ calls = <<>>
  /\ acked = {}
  /\ buf = <<>>
  /\ ended = FALSE
  /\ waiters = <<>>
  /\ wpc = [w \in WorkerIds |-> "off"]
  /\ batch = [w \in WorkerIds |-> <<>>]
  /\ handed = [w \in WorkerIds |-> NoRec]
  /\ rpc = "off"
  /\ rOffset = 0
  /\ rPos = 0
  /\ rPending = NoRec
  /\ ckptCur = 0
  /\ metrics = ZeroMetrics

InitIngest ==
  /\ InitPipeline
  /\ hist = EmptyHistory(FALSE)

InitSession ==
  /\ sock = 0
  /\ socks = <<>>
  /\ isConnected = FALSE
  /\ qr = 0
  /\ sessionPath = "absent"
  /\ reconnectAttempts = 0
  /\ reconnects = 0
  /\ connectionUpdateHandler = 0
  /\ logouts = <<>>
  /\ logoutCall = [pc |-> "idle", result |-> NoResult]
  /\ sends = <<>>

\* a tenant without webhooks or excluded numbers
Init ==
  /\ InitIngest
  /\ InitSession
  /\ webhooks = <<>>
  /\ excludedNumbers = {}
  /\ handlers = <<>>
  /\ posts = <<>>
  /\ upserts = <<>>
  /\ backfill = NoBackfill

\* The same tenant, with the history of the queue and of the replay loop kept.
InitSeen ==
  /\ InitPipeline
  /\ hist = EmptyHistory(TRUE)
  /\ InitSession
  /\ webhooks = <<>>
  /\ excludedNumbers = {}
  /\ handlers = <<>>
  /\ posts = <<>>
  /\ upserts = <<>>
  /\ backfill = NoBackfill

\* messages the producers of each specification submit
IngestMsgs == {MsgA1, MsgA2, MsgP, MsgNoId, MsgNoFrom}
CrashMsgs == {MsgA1}

\* the steps of one enqueueMessage call whose append succeeds
callStep(c) == appendFile(c) \/ sync(c) \/ enqueueReturn(c)

\* the steps of one worker
workerStep(w) == workerNext(w) \/ workerResumes(w) \/ workerPersists(w)

\* the steps of the replay loop
replayStep == replayLine \/ replayEnqueue \/ replayEof \/ replayReopen

\* the steps of the pipeline that are the same in every specification
Pipeline ==
  \/ Start
  \/ \E c \in 1..Len(calls) : appendFile(c)
  \/ \E c \in 1..Len(calls) : sync(c)
  \/ \E c \in 1..Len(calls) : appendFails(c)
  \/ \E c \in 1..Len(calls) : enqueueReturn(c)
  \/ \E w \in WorkerIds : workerNext(w)
  \/ \E w \in WorkerIds : workerResumes(w)
  \/ \E w \in WorkerIds : workerPersists(w)
  \/ replayLine
  \/ replayEnqueue
  \/ replayEof
  \/ replayReopen

\* The pipeline without crashes.
Next ==
  \/ \E m \in IngestMsgs : enqueueMessage(m)
  \/ Pipeline

Spec == Init /\ [][Next]_vars

\* lock periods: the chat upsert of one message, and three whole attempts on
\* one record
LockPeriods == {1, MaxLock}

\* The pipeline with a process crash and a database that locks.
NextCrash ==
  \/ \E m \in CrashMsgs : enqueueMessage(m)
  \/ Crash
  \/ \E n \in LockPeriods : StoreLocks(n)
  \/ Pipeline

SpecCrash == Init /\ [][NextCrash]_vars

\* The pipeline with short writes to the log and a process crash.
NextTorn ==
  \/ \E m \in CrashMsgs : enqueueMessage(m)
  \/ \E c \in 1..Len(calls) : appendFileShort(c)
  \/ \E c \in 1..Len(calls) : appendFileRest(c)
  \/ Crash
  \/ Pipeline

SpecTorn == Init /\ [][NextTorn]_vars

\* The same, with the history kept.
SpecTornSeen == InitSeen /\ [][NextTorn]_vars

\* workerPersists(w) as the worker's position shows it: the only step that
\* takes a worker from persist to next.
workerFlushes(w) ==
  up /\ wpc[w] = "persist" /\ wpc' = [wpc EXCEPT ![w] = "next"]

\* The pipeline as the event loop runs it: a continuation that is ready runs,
\* a timer that is due fires. Whether a producer calls is left open.
Scheduling ==
  /\ WF_vars(Start)
  /\ \A c \in 1..MaxCalls : WF_vars(c <= Len(calls) /\ appendFile(c))
  /\ \A c \in 1..MaxCalls : WF_vars(c <= Len(calls) /\ sync(c))
  /\ \A c \in 1..MaxCalls : WF_vars(c <= Len(calls) /\ enqueueReturn(c))
  /\ \A w \in WorkerIds : WF_vars(workerNext(w))
  /\ \A w \in WorkerIds : WF_vars(workerResumes(w))
  /\ \A w \in WorkerIds : WF_wpc(workerFlushes(w))
  /\ WF_vars(replayLine)
  /\ WF_vars(replayEnqueue)
  /\ WF_vars(replayEof)
  /\ WF_vars(replayReopen)

NextLive ==
  \/ \E m \in CrashMsgs : enqueueMessage(m)
  \/ Start
  \/ \E c \in 1..Len(calls) : callStep(c)
  \/ \E w \in WorkerIds : workerStep(w)
  \/ replayStep

SpecLive == InitSeen /\ [][NextLive]_vars /\ Scheduling

\* workerLeftovers(w) as the worker's position shows it
workerReturns(w) ==
  up /\ wpc[w] = "leftovers" /\ wpc' = [wpc EXCEPT ![w] = "returned"]

\* The pipeline with a shutdown signal.
NextShutdown ==
  \/ \E m \in CrashMsgs : enqueueMessage(m)
  \/ Start
  \/ \E c \in 1..Len(calls) : callStep(c)
  \/ \E w \in WorkerIds : workerStep(w)
  \/ \E w \in WorkerIds : workerLeftovers(w)
  \/ replayStep
  \/ shutdown
  \/ processExit

\* Whether the signal comes is left open; once it has come the workers that
\* were resolved run on and the hook's timer fires.
SpecShutdown ==
  /\ InitSeen
  /\ [][NextShutdown]_vars
  /\ Scheduling
  /\ \A w \in WorkerIds : WF_wpc(workerReturns(w))
  /\ WF_vars(processExit)

\* The pipeline with short writes and a crash, as the event loop runs it: a
\* short write is followed by the write of the rest.
SpecTornLive ==
  /\ InitSeen
  /\ [][NextTorn]_vars
  /\ Scheduling
  /\ \A c \in 1..MaxCalls : WF_vars(c <= Len(calls) /\ appendFileRest(c))

\* A service that has run for a while: CheckpointEvery / 2 - 1 messages were
\* received, appended, enqueued by enqueueMessage and by the replay loop, and
\* persisted; the workers wait on the empty queue and the replay loop sleeps at
\* the end of the log. logFile holds the lines behind that point, and the byte
\* offsets count from it.
InitCheckpoint ==
  /\ up = TRUE
  /\ crashes = 0
  /\ faults = 0
  /\ clock = 0
  /\ logFile = <<>>
  /\ syncedLen = 0
  /\ ckptFile = 0
  /\ dlqFile = <<>>
  /\ store = [msgs |-> {}, chats |-> {}]
  /\ lockedFor = 0
  /\ calls = <<>>
  /\ acked = {}
  /\ buf = <<>>
  /\ ended = FALSE
  /\ waiters = [i \in 1..Workers |-> i]
  /\ wpc = [w \in WorkerIds |-> "wait"]
  /\ batch = [w \in WorkerIds |-> <<>>]
  /\ handed = [w \in WorkerIds |-> NoRec]
  /\ rpc = "tail"
  /\ rOffset = 0
  /\ rPos = 0
  /\ rPending = NoRec
  /\ ckptCur = 0
  /\ metrics = [ZeroMetrics EXCEPT !.received = CheckpointEvery \div 2 - 1,
                                   !.enqueued = CheckpointEvery - 2,
                                   !.persisted = CheckpointEvery - 2]
  /\ hist = EmptyHistory(TRUE)
  /\ InitSession
  /\ webhooks = <<>>
  /\ excludedNumbers = {}
  /\ handlers = <<>>
  /\ posts = <<>>
  /\ upserts = <<>>
  /\ backfill = NoBackfill

\* The pipeline with a checkpoint file whose write can fail.
NextCheckpoint ==
  \/ \E m \in CrashMsgs : enqueueMessage(m)
  \/ \E c \in 1..Len(calls) : callStep(c)
  \/ \E w \in WorkerIds : workerStep(w)
  \/ replayStep
  \/ replayEnqueueSaveFails

SpecCheckpoint == InitCheckpoint /\ [][NextCheckpoint]_vars

\* The pipeline with a log that is truncated, and a process crash.
NextRotate ==
  \/ \E m \in CrashMsgs : enqueueMessage(m)
  \/ truncateLog
  \/ Crash
  \/ Pipeline

SpecRotate == Init /\ [][NextRotate]_vars

\* The session of one tenant: its sockets and their waitForQR calls.
NextSession ==
  \/ Len(socks) < MaxSocks /\ initializeCall
  \/ \E s \in 1..Len(socks), code \in QrCodes : connectionQr(s, code)
  \/ \E s \in 1..Len(socks) : connectionOpen(s)
  \/ \E s \in 1..Len(socks), statusCode \in StatusCodes :
       Len(socks) < MaxSocks /\ connectionClose(s, statusCode)
  \/ \E s \in 1..Len(socks) : waitForQRTimeout(s)

SpecSession == Init /\ [][NextSession]_vars

\* The session of a tenant that is logged out, by the upstream or by logout().
NextLogout ==
  \/ Len(socks) < MaxSocks /\ initializeCall
  \/ \E s \in 1..Len(socks) : connectionQr(s, 1)
  \/ \E s \in 1..Len(socks) : credsUpdate(s)
  \/ \E s \in 1..Len(socks) : connectionOpen(s)
  \/ \E s \in 1..Len(socks), statusCode \in ReconnectCodes :
       Len(socks) < MaxSocks /\ connectionClose(s, statusCode)
  \/ logout
  \/ logoutResolves
  \/ logoutRejects

SpecLogout == Init /\ [][NextLogout]_vars

\* sockets of a run with sendMessage
MaxSendSocks == 2

\* sendMessage on a session that connects and disconnects, and the pipeline.
NextSend ==
  \/ Len(socks) < MaxSendSocks /\ initializeCall
  \/ \E s \in 1..Len(socks) : connectionOpen(s)
  \/ \E s \in 1..Len(socks), statusCode \in StatusCodes :
       Len(socks) < MaxSendSocks /\ connectionClose(s, statusCode)
  \/ \E to \in Recipients : sendMessage(to)
  \/ \E k \in 1..Len(sends), id \in {IdA, IdP} : upstreamResolves(k, id)
  \/ \E k \in 1..Len(sends) : upstreamRejects(k)
  \/ \E k \in 1..Len(sends) : sendReturns(k)
  \/ Pipeline

SpecSend == Init /\ [][NextSend]_vars

\* sockets of a run that exhausts the reconnection attempts
MaxReconnectSocks == 7

\* a process that starts with the credentials of an earlier run on disk
InitReconnect ==
  /\ InitIngest
  /\ sock = 0 /\ socks = <<>> /\ isConnected = FALSE /\ qr = 0
  /\ sessionPath = "creds"
  /\ reconnectAttempts = 0 /\ reconnects = 0 /\ sends = <<>>
  /\ connectionUpdateHandler = 0 /\ logouts = <<>>
  /\ logoutCall = [pc |-> "idle", result |-> NoResult]
  /\ webhooks = <<>>
  /\ excludedNumbers = {}
  /\ handlers = <<>>
  /\ posts = <<>>
  /\ upserts = <<>>
  /\ backfill = NoBackfill

\* The session of a tenant whose sockets keep closing.
NextReconnect ==
  \/ sock = 0 /\ initializeCall
  \/ \E s \in 1..Len(socks) : connectionOpen(s)
  \/ \E s \in 1..Len(socks), statusCode \in ReconnectCodes :
       Len(socks) < MaxReconnectSocks /\ connectionClose(s, statusCode)

SpecReconnect == InitReconnect /\ [][NextReconnect]_vars

\* the notify events of messages.upsert
UpsertBatches == {<<MsgA1, MsgB>>, <<MsgB>>}

\* The messages.upsert handler of a tenant without webhooks, and the pipeline.
NextUpsert ==
  \/ \E ms \in UpsertBatches : messagesUpsert(NotifyEvent(ms))
  \/ \E c \in 1..Len(calls) : notifyWebhook(c)
  \/ Pipeline

SpecUpsert == Init /\ [][NextUpsert]_vars

\* a tenant with webhooks, with or without the number of Bob excluded
InitNotify ==
  /\ InitIngest
  /\ InitSession
  /\ webhooks = Hooks
  /\ excludedNumbers \in {{}, {PhoneBob}}
  /\ handlers = <<>>
  /\ posts = <<>>
  /\ upserts = <<>>
  /\ backfill = NoBackfill

NotifyBatches == {<<MsgA1>>, <<MsgB>>, <<MsgNoId>>}

\* The messages.upsert handler of a tenant with webhooks, and the pipeline.
NextNotify ==
  \/ \E ms \in NotifyBatches :
       Len(calls) < MaxNotifyCalls /\ messagesUpsert(NotifyEvent(ms))
  \/ \E c \in 1..Len(calls) : notifyWebhook(c)
  \/ \E c \in 1..Len(calls), h \in 1..Len(webhooks), o \in FetchOutcomes :
       fetchSettles(c, h, o)
  \/ \E c \in 1..Len(calls) : notifyReturns(c)
  \/ Pipeline

SpecNotify == InitNotify /\ [][NextNotify]_vars

\* at most this many messages.upsert events in a run of the events
MaxUpserts == 2

\* messages.upsert events: a notify event with a protocolMessage and a
\* conversation, a notify event with a protocolMessage only, and an append
\* event with a conversation
UpsertEvents ==
  { [type |-> "notify",
     messages |-> <<RawOf(MsgB, "protocolMessage"), RawOf(MsgA1, "conversation")>>],
    [type |-> "notify", messages |-> <<RawOf(MsgB, "protocolMessage")>>],
    [type |-> "append", messages |-> <<RawOf(MsgA1, "conversation")>>] }

\* The messages.upsert handler on events of every kind, for a tenant with
\* webhooks, and the pipeline.
NextEvents ==
  \/ \E m \in UpsertEvents :
       /\ Len(upserts) < MaxUpserts
       /\ Len(calls) < MaxNotifyCalls
       /\ messagesUpsert(m)
  \/ \E c \in 1..Len(calls) : notifyWebhook(c)
  \/ \E c \in 1..Len(calls), h \in 1..Len(webhooks), o \in FetchOutcomes :
       fetchSettles(c, h, o)
  \/ \E c \in 1..Len(calls) : notifyReturns(c)
  \/ Pipeline

SpecEvents == InitNotify /\ [][NextEvents]_vars

\* ------------------------------------------------------------------ claims

\* Nothing is in flight: every call has returned, the replay loop has saved its
\* offset at the end of the log and sleeps, the queue is empty and every
\* worker waits for an item with an empty batch.
Quiescent ==
  /\ up
  /\ \A c \in 1..Len(calls) : calls[c].pc \in {"done", "killed"}
  /\ rpc = "tail"
  /\ rOffset >= sizeBytes
  /\ buf = <<>>
  /\ \A w \in WorkerIds : wpc[w] = "wait" /\ batch[w] = <<>>

RowsWithId(id) == {r \in store.msgs : r.id = id}

DlqEntriesOf(rec) == {i \in 1..Len(dlqFile) : dlqFile[i].record = rec}

\* C1: once the replay loop is at the end of the log and the workers have
\* drained the queue, with no crash, every record of the log has exactly one
\* message row with its id or exactly one dead-letter entry, and never more
\* than one dead-letter entry.
C1_StoredOrDeadLettered ==
  (Quiescent /\ crashes = 0) =>
    \A i \in 1..Len(logFile) :
      logFile[i].kind = "json" =>
        /\ \/ Cardinality(RowsWithId(logFile[i].rec.payload.id)) = 1
           \/ Cardinality(DlqEntriesOf(logFile[i].rec)) = 1
        /\ Cardinality(DlqEntriesOf(logFile[i].rec)) <= 1

\* C2: a message whose enqueueMessage returned accepted=true has, after a crash,
\* a restart, the replay to the end of the log and the drain of the queue, a
\* message row or a dead-letter entry.  Stated for the runs without an injected
\* fault and the messages the database accepts.
C2_AcceptedSurvivesCrash ==
  (Quiescent /\ crashes > 0 /\ faults = 0) =>
    \A r \in acked :
      r.payload.id \notin PoisonIds =>
        \/ RowsWithId(r.payload.id) # {}
        \/ DlqEntriesOf(r) # {}

\* C3: enqueueMessage returns accepted=true only after the record's line is in
\* the log and an fsync has covered it; once the append has returned it answers
\* accepted=true whether or not the queue takes the record, and when the queue
\* does not take it the enqueued counter and the queue stay as they were.
C3_AcceptedAfterFsync ==
  [][\A c \in 1..Len(calls) :
       (calls[c].pc # "done" /\ calls'[c].pc = "done") =>
         /\ calls[c].pc = "appended" => calls'[c].accepted
         /\ calls'[c].accepted =>
              /\ calls[c].pc = "appended"
              /\ \E i \in 1..syncedLen : logFile[i] = JsonLine(calls[c].rec)
              /\ ~QueueAccepts =>
                   /\ metrics'.enqueued = metrics.enqueued
                   /\ buf' = buf
                   /\ calls'[c].overflow]_vars

\* C3 witness: a call has returned accepted=true while the queue was full.
C3_Witness ==
  \E c \in 1..Len(calls) :
    /\ calls[c].pc = "done" /\ calls[c].accepted /\ calls[c].overflow
    /\ Len(buf) = QueueCapacity

\* accepted calls that carried this message id
AcceptedWithId(id) ==
  {c \in 1..Len(calls) : calls[c].accepted /\ calls[c].rec.payload.id = id}

\* C4: the message table never holds two rows with one id, and when two
\* accepted enqueueMessage calls carried the same id, which the database
\* accepts, it holds exactly one row with that id after replay and drain.
C4_OneRowPerId ==
  /\ \A r1, r2 \in store.msgs : r1.id = r2.id => r1 = r2
  /\ Quiescent =>
       \A c \in 1..Len(calls) :
         (/\ Cardinality(AcceptedWithId(calls[c].rec.payload.id)) >= 2
          /\ calls[c].rec.payload.id \notin PoisonIds
          /\ faults = 0)
         => Cardinality(RowsWithId(calls[c].rec.payload.id)) = 1

\* C4 witness: two accepted calls with one id and different timestamps, both
\* delivered to the store, one row.
C4_Witness ==
  /\ Quiescent
  /\ Len(calls) = 2
  /\ calls[1].accepted /\ calls[2].accepted
  /\ calls[1].rec.payload.id = calls[2].rec.payload.id
  /\ calls[1].rec.payload # calls[2].rec.payload
  /\ Cardinality(RowsWithId(calls[1].rec.payload.id)) = 1
  /\ metrics.persisted >= 2

PoisonIn(records) ==
  {i \in 1..Len(records) : records[i].payload.id \in PoisonIds}

\* C5: when persistBatch returns for a batch in which exactly one record is
\* rejected by the database on every attempt, every other record of the batch
\* has its message row and the dead-letter log has one more entry, which is
\* that record with the error.
C5_PoisonIsolated ==
  [][\A w \in WorkerIds :
       (/\ wpc[w] = "persist" /\ wpc'[w] = "next"
        /\ Cardinality(PoisonIn(batch[w])) = 1
        /\ lockedFor = 0)
       => LET k == CHOOSE i \in PoisonIn(batch[w]) : TRUE IN
          /\ \A i \in 1..Len(batch[w]) :
               i # k => RowsWithId(batch[w][i].payload.id)' # {}
          /\ Len(dlqFile') = Len(dlqFile) + 1
          /\ dlqFile'[Len(dlqFile')] = [record |-> batch[w][k], error |-> ErrPoison]]_vars

\* C6: every connection.update with connection=close whose status code is not
\* loggedOut starts initialize(true), whatever the state of the session,
\* also after the socket had reached open.
C6_CloseStartsReconnect ==
  [][\A s \in 1..Len(socks) :
       (/\ socks[s].state # "closed"
        /\ socks'[s].state = "closed"
        /\ socks'[s].statusCode # "loggedOut")
       => reconnects' = reconnects + 1]_vars

\* C7: no POST of a message.received event is issued for a message whose
\* sender, as "+" and the digits of its from before the "@", is in the
\* tenant's exclusion set.
C7_NoPostForExcluded ==
  \A i \in 1..Len(posts) :
    posts[i].event = "message.received" =>
      extractPhoneNumber(posts[i].from) \notin excludedNumbers

\* the payloads a receiver may be handed
Bodies ==
  {payloadOf("message.received", m, Hooks[h], at) :
     m \in {MsgA1, MsgA2, MsgB}, h \in 1..Len(Hooks), at \in 1..MaxNotifyCalls}

\* C8: the X-Signature of every POST is "sha256=" and the lowercase hex digest
\* of the body that was sent under the secret of the webhook it goes to;
\* verifySignature accepts it with that body and secret and rejects it with
\* any other body or any other secret.
C8_SignatureVerifies ==
  \A i \in 1..Len(posts) :
    LET p == posts[i]
        secret == webhooks[p.webhook].secret
    IN /\ p.signature =
            <<"s", "h", "a", "2", "5", "6", "=">>
              \o digestHex(createHmacDigest(secret, p.body))
       /\ verifySignature(secret, p.body, p.signature)
       /\ \A k \in Secrets \ {secret} : ~verifySignature(k, p.body, p.signature)
       /\ \A b \in Bodies \ {p.body} : ~verifySignature(secret, b, p.signature)

\* C8 witness: one event has been posted to two webhooks with different
\* secrets, under different signatures.
C8_Witness ==
  \E i, j \in 1..Len(posts) :
    /\ posts[i].call = posts[j].call
    /\ webhooks[posts[i].webhook].secret # webhooks[posts[j].webhook].secret
    /\ posts[i].signature # posts[j].signature
    /\ verifySignature(SecretTwo, posts[j].body, posts[j].signature)

PostsOf(c, h) == {i \in 1..Len(posts) : posts[i].call = c /\ posts[i].webhook = h}

\* a step of notifyWebhook for message c
NotifySteps(c) ==
  handlers[c].pc \in {"enqueue", "notify"} /\ handlers'[c] # handlers[c]

\* C9: once notify has started for an event, every active webhook has been
\* posted to exactly once and no inactive one at all, whatever the outcome of
\* the other fetches; notify returns with every delivery settled, and its steps
\* leave the ingestion and session state as they were.
C9_OnePostPerActiveHook ==
  [][\A c \in 1..Len(handlers) :
       /\ handlers'[c].pc \in {"notify", "finished"} =>
            \A h \in 1..Len(webhooks) :
              /\ Cardinality(PostsOf(c, h)') = (IF webhooks[h].isActive THEN 1 ELSE 0)
              /\ handlers'[c].pc = "finished" =>
                   handlers'[c].deliveries[h] =
                     (IF webhooks[h].isActive
                      THEN handlers[c].deliveries[h] ELSE "skipped")
              /\ handlers'[c].pc = "finished" =>
                   handlers'[c].deliveries[h] # "pending"
       /\ NotifySteps(c) => UNCHANGED <<ingestVars, sessVars>>]_vars

\* C9 witness: notify has returned after the fetch to the first webhook failed
\* and the fetch to the second succeeded.
C9_Witness ==
  \E c \in 1..Len(handlers) :
    /\ handlers[c].pc = "finished"
    /\ handlers[c].deliveries = <<"failed", "ok", "skipped">>
    /\ Cardinality(PostsOf(c, 1)) = 1
    /\ Cardinality(PostsOf(c, 2)) = 1

\* the call that wrote the i-th line of the log
CallOfLine(i) == CHOOSE c \in 1..Len(calls) : calls[c].rec = logFile[i].rec

\* C10: the records of a tenant are in the log in the order in which their
\* messages were emitted, also those of one messages.upsert event whose
\* enqueueMessage calls run concurrently.
C10_LogInEmissionOrder ==
  \A i, j \in 1..Len(logFile) :
    i < j => CallOfLine(i) < CallOfLine(j)

\* C11: while the last line of the log has no newline yet, it has not been
\* counted as a parse error, and neither the replay offset nor the checkpoint
\* lies beyond its first byte.
C11_PartialLineIgnored ==
  (/\ logFile # <<>>
   /\ ~logFile[Len(logFile)].nl
   /\ \A i \in 1..(Len(logFile) - 1) : logFile[i].kind = "json")
  => /\ metrics.replay_parse_error = 0
     /\ rOffset <= LineStart(Len(logFile))
     /\ ckptFile <= LineStart(Len(logFile))

\* C12: when the log has become shorter than the checkpoint, at startup or
\* while the loop tails, the replay loop, once it has read to the end of the
\* file again, has its offset and the saved checkpoint inside the file, and
\* with no crash every record of the log has been delivered and has its row
\* once the queue is drained.
C12_TruncationResets ==
  [][/\ (rpc = "read" /\ rpc' = "tail") =>
          (rOffset' <= sizeBytes' /\ ckptFile' <= sizeBytes')
     /\ (Quiescent' /\ crashes' = 0) =>
          \A i \in 1..Len(logFile') :
            logFile'[i].kind = "json" =>
              \E r \in store'.msgs : r.id = logFile'[i].rec.payload.id]_vars

\* C13: when the message upsert of a single-record batch fails with "database
\* is locked" on the first 3 attempts and succeeds on the 4th, the record has
\* its row when persistBatch returns, the dead-letter log is as it was, and
\* retried has grown by at least 3.
C13_TransientRetried ==
  [][\A w \in WorkerIds :
       (/\ wpc[w] = "persist" /\ wpc'[w] = "next"
        /\ Len(batch[w]) = 1
        /\ batch[w][1].payload.id \notin PoisonIds
        /\ lockedFor \div 2 = 3)
       => /\ \E r \in store'.msgs : r.id = batch[w][1].payload.id
          /\ dlqFile' = dlqFile
          /\ metrics'.retried >= metrics.retried + 3]_vars

\* C14: when persistBatch returns for a batch of N records of which exactly
\* one is rejected by the database on every attempt, persisted has grown by
\* N-1 and deadLettered by 1.
C14_PersistedCountsSuccesses ==
  [][\A w \in WorkerIds :
       (/\ wpc[w] = "persist" /\ wpc'[w] = "next"
        /\ Cardinality(PoisonIn(batch[w])) = 1
        /\ lockedFor = 0)
       => /\ metrics'.persisted = metrics.persisted + Len(batch[w]) - 1
          /\ metrics'.deadLettered = metrics.deadLettered + 1]_vars

LinesWithKeyOf(id) ==
  {i \in 1..Len(logFile) :
     logFile[i].kind = "json" /\ logFile[i].rec.idempotencyKey = <<"w", "a", ":">> \o id}

C16_InvalidRejected ==
  [][/\ \A c \in 1..Len(calls') :
          (calls'[c].rec.payload.id = <<>> \/ calls'[c].rec.payload.from = <<>>)
          => calls'[c] = Rejected(NoRec, "invalid_message")
     /\ (Len(calls') > Len(calls) /\ calls'[Len(calls')].reason = "invalid_message")
        => /\ logFile' = logFile
           /\ buf' = buf /\ handed' = handed /\ waiters' = waiters
           /\ metrics' = metrics
     /\ \A i \in 1..Len(logFile') :
          logFile'[i].rec.payload.id # <<>> /\ logFile'[i].rec.payload.from # <<>>
     /\ \A i \in 1..Len(buf') :
          buf'[i].payload.id # <<>> /\ buf'[i].payload.from # <<>>]_vars

\* C16 witness: a call was rejected as invalid_message while another message
\* is in the log.
C16_Witness ==
  /\ \E c \in 1..Len(calls) :
       calls[c].pc = "done" /\ ~calls[c].accepted
       /\ calls[c].reason = "invalid_message"
  /\ logFile # <<>>
  /\ metrics.received = 1

\* C17: a call that ends before its append and fsync have succeeded is answered
\* accepted=false with reason log_append_failed; that step adds 1 to
\* log_append_failed, leaves received and enqueued as they were and puts nothing
\* on the queue.
C17_AppendFailureRejected ==
  [][\A c \in 1..Len(calls) :
       (calls[c].pc \in {"append", "rest", "sync"} /\ calls'[c].pc = "done")
       => /\ ~calls'[c].accepted
          /\ calls'[c].reason = "log_append_failed"
          /\ metrics'.log_append_failed = metrics.log_append_failed + 1
          /\ metrics'.received = metrics.received
          /\ metrics'.enqueued = metrics.enqueued
          /\ buf' = buf /\ handed' = handed /\ waiters' = waiters
          /\ calls[c].rec \notin acked']_vars

\* C17 witness: a call was rejected with log_append_failed and nothing has been
\* counted as received.
C17_Witness ==
  /\ \E c \in 1..Len(calls) :
       calls[c].pc = "done" /\ ~calls[c].accepted
       /\ calls[c].reason = "log_append_failed"
  /\ metrics.log_append_failed = 1
  /\ metrics.received = 0

\* C19: sendMessage reaches the upstream socket only when the latest connection
\* event of the session's socket is open; a call that does not reach it throws
\* and submits nothing to enqueueMessage; a call whose upstream send succeeded
\* submits one MessageInfo with fromMe=true and the id of the result, and does
\* not throw whatever enqueueMessage answers.
C19_SendOnlyWhileConnected ==
  \A k \in 1..Len(sends) :
    /\ sends[k].invoked => sends[k].open
    /\ ~sends[k].invoked => (sends[k].pc = "thrown" /\ sends[k].call = 0)
    /\ sends[k].pc = "thrown" => sends[k].call = 0
    /\ sends[k].pc \in {"enqueue", "returned"} =>
         /\ sends[k].call \in 1..Len(calls)
         /\ calls[sends[k].call].rec.payload.fromMe
         /\ calls[sends[k].call].rec.payload.id = sends[k].result
         /\ \A j \in 1..Len(sends) : sends[j].call = sends[k].call => j = k

C21_LoggedOutStartsOver ==
  [][\A s \in 1..Len(socks) :
       (/\ socks[s].state # "closed"
        /\ socks'[s].state = "closed"
        /\ socks'[s].statusCode = "loggedOut")
       => /\ logouts' = Append(logouts, "connection_closed")
          /\ sessionPath' = "empty"
          /\ isConnected' = FALSE
          /\ qr' = 0
          /\ reconnectAttempts' = 0
          /\ Len(socks') = Len(socks) + 1
          /\ sock' = Len(socks')
          /\ ~socks'[sock'].isReconnecting]_vars

C24_WaitForQRResolves ==
  [][\A s \in 1..Len(socks) :
       socks[s].first = "none" =>
         /\ socks'[s].first = "qr"
            => /\ socks'[s].answer \in QrCodes
               /\ socks'[s].answer = qr'
               /\ socks'[s].result = "waiting_qr"
         /\ socks'[s].first = "open" => socks'[s].answer = 0
         /\ socks'[s].first = "timeout"
            => /\ socks'[s].answer = 0
               /\ ~isConnected => socks'[s].result = "error"]_vars

NotProtocol(raw) == raw.messageType # "protocolMessage"

RECURSIVE Submitted(_)
\* the messages of these events that are to be ingested: those of the notify
\* events that are no protocolMessage, in order
Submitted(events) ==
  IF events = <<>> THEN <<>>
  ELSE LET kept == IF Head(events).type = "notify"
                   THEN SelectSeq(Head(events).messages, NotProtocol)
                   ELSE <<>>
       IN [i \in 1..Len(kept) |-> MessageInfoOf(kept[i])]
          \o Submitted(Tail(events))

\* C23: the enqueueMessage calls are those of the messages of notify events
\* that are no protocolMessage, one each and in order, so that a
\* protocolMessage and an event of another kind cause no call, no log line and
\* no webhook; a message.received POST is issued only after the enqueueMessage
\* call of its message has returned.
C23_EnqueueBeforeWebhook ==
  /\ Len(calls) = Len(handlers)
  /\ [c \in 1..Len(handlers) |-> handlers[c].msg] = Submitted(upserts)
  /\ \A c \in 1..Len(calls) :
       calls[c].rec.payload \in {handlers[c].msg, NoRec.payload}
  /\ \A i \in 1..Len(logFile) :
       \E c \in 1..Len(calls) : logFile[i].rec = calls[c].rec
  /\ \A i \in 1..Len(posts) :
       /\ posts[i].event = "message.received"
       /\ posts[i].call \in 1..Len(calls)
       /\ calls[posts[i].call].pc = "done"
       /\ handlers[posts[i].call].pc # "enqueue"
       /\ posts[i].from = handlers[posts[i].call].msg.from

\* C23 witness: after an append event and a notify event with a protocolMessage
\* and a conversation, the one call is that of the conversation, its record is
\* in the log and its webhook has been posted.
C23_Witness ==
  /\ Len(upserts) = 2
  /\ upserts[1].type = "append"
  /\ Len(upserts[2].messages) = 2
  /\ Len(calls) = 1
  /\ calls[1].accepted
  /\ calls[1].rec.payload = MsgA1
  /\ Len(logFile) = 1
  /\ posts # <<>>

\* the records of a batch that have a message row
StoredOf(records, st) ==
  {i \in 1..Len(records) : \E r \in st.msgs : r.id = records[i].payload.id}

\* C25: when persistBatch returns, a record of the batch whose store write
\* failed has not been counted as persisted and dropped: every record of the
\* batch has its message row or its dead-letter entry, and persisted has grown
\* by no more than the records that have their row.
C25_StoreFailureRaised ==
  [][\A w \in WorkerIds :
       (wpc[w] = "persist" /\ wpc'[w] = "next")
       => /\ \A i \in 1..Len(batch[w]) :
               \/ i \in StoredOf(batch[w], store')
               \/ \E j \in 1..Len(dlqFile') : dlqFile'[j].record = batch[w][i]
          /\ metrics'.persisted - metrics.persisted
               <= Cardinality(StoredOf(batch[w], store'))]_vars


\* the records that lie entirely before byte offset off of the log
RecordsBefore(off) ==
  {logFile[i].rec : i \in {k \in 1..Len(logFile) :
                             logFile[k].kind = "json" /\ LineEnd(k) <= off}}

\* C26: in every state each record line that lies entirely before the saved
\* checkpoint has been accepted by the queue from the replay loop; and a step
\* that leaves the replay loop with its pending record, the queue being full or
\* closed, leaves the offset and the checkpoint where they were.
C26_CheckpointBehindQueue ==
  [][/\ RecordsBefore(ckptFile') \subseteq hist'.replayed
     /\ (up' /\ rpc = "enqueue" /\ rpc' = "enqueue" /\ ~QueueAccepts)
        => (rOffset' = rOffset /\ ckptFile' = ckptFile)]_vars

\* the records of the log
LogRecords ==
  {logFile[i].rec : i \in {k \in 1..Len(logFile) : logFile[k].kind = "json"}}

\* C27: with workers that keep draining the queue, every record in the log is
\* eventually handed to the queue by the replay loop and stays handed, and from
\* some point on (appends having stopped) the saved checkpoint equals the size
\* of the log.
C27_ReplayDelivers ==
  <>[](LogRecords \subseteq hist.replayed /\ ckptFile = sizeBytes)

\* C28: a step in which the replay loop gets its pending record into the queue
\* adds the bytes of that line to offset once and counts no parse error, also
\* when the save of the checkpoint fails; and the offset never lies beyond the
\* position the stream has been read to.
C28_OffsetAdvancesOnce ==
  [][/\ (up /\ up' /\ rpc = "enqueue" /\ rpc' = "read")
        => /\ rOffset' = rOffset + lineBytes(JsonLine(rPending))
           /\ metrics'.replay_parse_error = metrics.replay_parse_error
     /\ rOffset' <= rPos']_vars

\* the records the queue has given to a worker
Dequeued == {hist.delivered[i].item : i \in 1..Len(hist.delivered)}

\* C29: a worker that holds BatchSize records is about to flush them, a worker
\* whose loop has returned holds nothing, and every record a worker has
\* dequeued is eventually passed to persistBatchWithRetry, whether or not
\* another record arrives or the queue is closed.
C29_DequeuedFlushed ==
  /\ [](\A w \in WorkerIds :
          /\ Len(batch[w]) >= BatchSize => wpc[w] = "persist"
          /\ wpc[w] = "returned" => batch[w] = <<>>)
  /\ <>[](Dequeued \subseteq hist.flushed)

\* what the queue has given out is the front of what it accepted, in that
\* order, and the rest is in its buffer, in that order
QueueOrder ==
  /\ Len(hist.accepted) = Len(hist.delivered) + Len(buf)
  /\ \A i \in 1..Len(hist.delivered) :
       hist.delivered[i].item = hist.accepted[i]
  /\ \A j \in 1..Len(buf) : buf[j] = hist.accepted[Len(hist.delivered) + j]

\* C30: in every state the items given to consumers are, in order, the first
\* of the items tryEnqueue accepted and the others are still in the buffer, so
\* none is lost or given out twice; each step gives out at most one item, to
\* one consumer, which holds it afterwards; and when consumers are suspended
\* the item goes to the one that has waited longest.
C30_QueueFifo ==
  [][/\ QueueOrder'
     /\ Len(hist'.delivered) <= Len(hist.delivered) + 1
     /\ Len(hist'.delivered) = Len(hist.delivered) + 1
        => LET d == hist'.delivered[Len(hist'.delivered)] IN
           /\ \/ handed'[d.to] = d.item
              \/ /\ batch'[d.to] # <<>>
                 /\ batch'[d.to][Len(batch'[d.to])] = d.item
           /\ \A w \in WorkerIds \ {d.to} :
                handed'[w] = handed[w] /\ batch'[w] = batch[w]
           /\ waiters # <<>>
              => d.to = Head(waiters) /\ waiters' = Tail(waiters)]_vars

\* C30 witness: both workers were suspended, the one that waited longer was
\* given the first item and the other the second, and a third item is in the
\* buffer.
C30_Witness ==
  /\ Len(hist.delivered) >= 2
  /\ hist.delivered[1].to # hist.delivered[2].to
  /\ handed[hist.delivered[1].to] # NoRec
  /\ handed[hist.delivered[2].to] # NoRec
  /\ buf # <<>>

\* C31: the buffer never holds more than QueueCapacity items; the step in
\* which enqueueMessage offers its record to the queue always completes: with a
\* full buffer tryEnqueue returns false and the queue is as it was, otherwise
\* it returns true and the record is at the end of the buffer or, the buffer
\* having been empty, with the worker that waited longest; the replay loop
\* gets its record in only when the buffer is not full.
C31_QueueBounded ==
  [][/\ Len(buf') <= QueueCapacity
     /\ \A c \in 1..Len(calls) :
          (calls[c].pc = "appended" /\ calls'[c].pc = "done")
          => IF Len(buf) >= QueueCapacity
             THEN /\ calls'[c].overflow
                  /\ buf' = buf /\ waiters' = waiters
                  /\ handed' = handed /\ wpc' = wpc
             ELSE /\ ~calls'[c].overflow
                  /\ IF waiters = <<>>
                     THEN buf' = Append(buf, calls[c].rec)
                     ELSE /\ handed'[Head(waiters)] = Head(Append(buf, calls[c].rec))
                          /\ buf' = Tail(Append(buf, calls[c].rec))
     /\ (up' /\ rpc = "enqueue" /\ rpc' = "read") => Len(buf) < QueueCapacity]_vars

\* C31 witness: a call was answered with the buffer full and its record was
\* not added.
C31_Witness ==
  /\ Len(buf) = QueueCapacity
  /\ \E c \in 1..Len(calls) :
       calls[c].pc = "done" /\ calls[c].accepted /\ calls[c].overflow

\* a worker that has been given the end of the stream
SawEnd(w) == wpc[w] \in {"leftovers", "returned"}

\* C32: once the queue is ended tryEnqueue accepts nothing more and
\* enqueueMessage is answered with overflow; ending it gives the end of the
\* stream to every suspended worker; an item leaves the buffer of an ended queue
\* only by being given to a worker; and no worker is given the end of the
\* stream while the buffer holds an item, so what was buffered when the queue
\* was ended has been given out before.
C32_EndOfStream ==
  [][/\ (ended /\ ended')
        => /\ hist'.accepted = hist.accepted
           /\ \A c \in 1..Len(calls) :
                (calls[c].pc = "appended" /\ calls'[c].pc = "done")
                => calls'[c].overflow
           /\ buf' # buf
              => /\ buf' = Tail(buf)
                 /\ Len(hist'.delivered) = Len(hist.delivered) + 1
                 /\ hist'.delivered[Len(hist'.delivered)].item = Head(buf)
     /\ (~ended /\ ended')
        => /\ waiters' = <<>>
           /\ buf' = buf
           /\ \A i \in 1..Len(waiters) : wpc'[waiters[i]] = "leftovers"
     /\ \A w \in WorkerIds :
          (up' /\ SawEnd(w)')
          => /\ ended'
             /\ buf' = <<>>]_vars

\* C32 witness: the ended queue still holds an item it held when it was ended,
\* a call made afterwards was answered with overflow without the buffer being
\* full, and a worker is about to ask for its next item.
C32_Witness ==
  /\ up
  /\ ended
  /\ buf # <<>>
  /\ Len(buf) < QueueCapacity
  /\ \E w \in WorkerIds : wpc[w] = "next"
  /\ \E c \in 1..Len(calls) : calls[c].pc = "done" /\ calls[c].overflow

\* C33: persistBatch returns for every batch, and a record of the batch that
\* has no message row when it returns has been through the per-record retry,
\* which counted at least one and at most MaxAttempts failed attempts for it
\* and then wrote it to the dead-letter log.
C33_RetriesThenDeadLetters ==
  [][\A w \in WorkerIds :
       (wpc[w] = "persist" /\ wpc'[w] = "next")
       => LET unstored == (1..Len(batch[w])) \ StoredOf(batch[w], store')
          IN /\ metrics'.retried - metrics.retried
                  <= MaxAttempts * Cardinality(unstored)
             /\ unstored # {}
                => /\ metrics'.retried > metrics.retried
                   /\ metrics'.deadLettered - metrics.deadLettered
                        = Cardinality(unstored)]_vars

\* C34: when the replay loop reads a complete line that is no JSON text, it
\* counts one replay_parse_error, moves its offset and its read position
\* forward by the bytes of that line with its newline, saves that offset as the
\* checkpoint, gives the queue nothing, and goes on reading.
C34_CorruptLineSkipped ==
  [][(/\ up /\ up'
      /\ rpc = "read"
      /\ rPos < sizeBytes
      /\ rPos' # rPos
      /\ LineAt(rPos).kind = "junk"
      /\ LineAt(rPos).nl)
     => /\ metrics'.replay_parse_error = metrics.replay_parse_error + 1
        /\ metrics'.enqueued = metrics.enqueued
        /\ rOffset' = rOffset + FileBytes(LineAt(rPos))
        /\ rPos' = rPos + FileBytes(LineAt(rPos))
        /\ ckptFile' = rOffset'
        /\ buf' = buf /\ waiters' = waiters /\ handed' = handed
        /\ rpc' = "read"]_vars

\* C34 witness: the log holds a complete line that is no JSON text, a parse
\* error has been counted, and the replay loop is reading on from the saved
\* checkpoint at the end of that line.
C34_Witness ==
  /\ up
  /\ rpc = "read"
  /\ metrics.replay_parse_error = 1
  /\ ckptFile = rOffset
  /\ rPos = rOffset
  /\ \E i \in 1..Len(logFile) :
       /\ logFile[i].kind = "junk"
       /\ logFile[i].nl
       /\ LineEnd(i) = rOffset
       /\ i < Len(logFile)

\* C35: while logout() awaits the upstream logout of the session's socket, the
\* close with status loggedOut of that socket runs neither handleLogout nor
\* initialize: no socket is created and nothing is logged out by the handler,
\* so that the session logout() leaves behind has no live socket of its own
\* making.
C35_LogoutDoesNotStartOver ==
  [][\A s \in 1..Len(socks) :
       (/\ logoutCall.pc = "upstream"
        /\ sock = s
        /\ socks[s].state # "closed"
        /\ socks'[s].state = "closed"
        /\ socks'[s].statusCode = "loggedOut")
       => /\ Len(socks') = Len(socks)
          /\ logouts' = logouts]_vars

\* the sockets of the session that are not closed: their handlers are
\* registered and run on every event upstream emits on them
LiveSockets == {s \in 1..Len(socks) : socks[s].state # "closed"}

\* C36: at any time at most one socket of the session is live, and it is the
\* one this.sock refers to.
C36_OneLiveSocket ==
  /\ Cardinality(LiveSockets) <= 1
  /\ \A s \in LiveSockets : sock = s

\* C37: when persistBatch is given a batch each of whose records has its
\* message row already, with its id, its chat and its timestamp, the store is
\* afterwards what it was before: no message row and no chat row has changed.
C37_DuplicateLeavesStore ==
  [][\A w \in WorkerIds :
       (/\ wpc[w] = "persist" /\ wpc'[w] = "next"
        /\ \A i \in 1..Len(batch[w]) :
             \E r \in store.msgs :
               /\ r.id = batch[w][i].payload.id
               /\ r.jid = batch[w][i].payload.from
               /\ r.timestamp = batch[w][i].payload.timestamp)
       => store' = store]_vars

\* C38: a message.received webhook is posted only for a message that
\* enqueueMessage accepted and that has its message row in the store when the
\* POST is issued.
C38_WebhookAfterPersisted ==
  [][\A k \in (Len(posts) + 1)..Len(posts') :
       posts'[k].event = "message.received"
       => /\ calls[posts'[k].call].accepted
          /\ \E r \in store.msgs : r.id = handlers[posts'[k].call].msg.id]_vars

\* getConnectionStatus()
getConnectionStatus == [isConnected |-> isConnected, qr |-> qr]

\* C39: while the session's socket is connecting and upstream has emitted a
\* pairing code on it, the qr of getConnectionStatus() is the code emitted
\* last.
C39_QrIsLatest ==
  \A s \in 1..Len(socks) :
    (sock = s /\ socks[s].state = "connecting" /\ socks[s].lastQr # 0)
    => getConnectionStatus.qr = socks[s].lastQr

\* ----------------------------------------------------------- history backfill

\* maxPages of the syncHistoryForChat call of syncHistoryOnReconnect
MaxPages == 6

\* limit of the listConversations call of syncHistoryOnReconnect
ConversationLimit == 1000

\* older messages the upstream can deliver for a chat
HistoryDepth == 7

\* runs of syncHistoryOnReconnect
MaxBackfills == 2

\* sockets of a run of the backfill
MaxHistorySocks == 2

\* Store.getOldestMessageAnchor(jid): the first message of the chat by
\* timestamp, or null
getOldestMessageAnchor(msgs, jid) ==
  LET rows == {r \in msgs : r.jid = jid} IN
  IF rows = {} THEN NoAnchor
  ELSE LET r == CHOOSE x \in rows : \A y \in rows : x.timestamp <= y.timestamp
       IN [id |-> r.id, timestamp |-> r.timestamp]

RECURSIVE listConversations(_, _)
\* Store.listConversations({limit, cursor: null}): the jids of the chats by
\* lastMessageTimestamp, latest first, at most limit of them
listConversations(chats, limit) ==
  IF chats = {} \/ limit = 0 THEN <<>>
  ELSE LET c == CHOOSE x \in chats :
                  \A y \in chats :
                    x.lastMessageTimestamp >= y.lastMessageTimestamp
       IN <<c.jid>> \o listConversations(chats \ {c}, limit - 1)

\* the while condition of syncHistoryForChat without the test of the page
LoopContinuesUnbounded(anchor, page) == anchor # NoAnchor

\* the while condition of syncHistoryForChat
LoopContinues(anchor, page) == anchor # NoAnchor /\ page < MaxPages

\* the frame of the steps of the backfill
backfillFrame ==
  UNCHANGED <<ingestVars, sessVars, webhooks, excludedNumbers, handlers, posts,
              upserts>>

\* syncHistoryOnReconnect up to its first syncHistoryForChat: without a socket
\* or a connection it returns, otherwise it lists the conversations
syncHistoryOnReconnect ==
  /\ backfill.pc = "idle"
  /\ backfill.runs < MaxBackfills
  /\ IF sock = 0 \/ ~isConnected
     THEN backfill' = [backfill EXCEPT !.runs = @ + 1]
     ELSE LET jids == listConversations(store.chats, ConversationLimit) IN
          backfill' = [NoBackfill EXCEPT
                         !.runs = backfill.runs + 1,
                         !.listed = jids,
                         !.todo = jids,
                         !.pc = IF jids = <<>> THEN "idle" ELSE "chat"]
  /\ backfillFrame

\* the for loop reaches a conversation: one without jid is passed over; for
\* the others syncHistoryForChat reads the anchor and returns when there is
\* none
syncHistoryForChat ==
  /\ backfill.pc = "chat"
  /\ LET jid == Head(backfill.todo)
         anchor == getOldestMessageAnchor(store.msgs, jid)
     IN IF jid = <<>>
        THEN backfill' = [backfill EXCEPT
                            !.todo = Tail(@),
                            !.pc = IF Tail(backfill.todo) = <<>>
                                   THEN "idle" ELSE "chat"]
        ELSE backfill' = [backfill EXCEPT
                            !.page = 0,
                            !.fetches = 0,
                            !.raised = FALSE,
                            !.anchor = anchor,
                            !.prevOldestId = anchor.id,
                            !.pc = IF LoopContinues(anchor, 0)
                                   THEN "fetch" ELSE "pause"]
  /\ backfillFrame

\* this.sock.fetchMessageHistory(batch, anchor.key, anchor.messageTimestamp):
\* it resolves, or it throws (as does the call on a null socket) and the loop
\* is left
fetchMessageHistory(ok) ==
  /\ backfill.pc = "fetch"
  /\ backfill' = [backfill EXCEPT
                    !.fetches = IF sock = 0 THEN @ ELSE @ + 1,
                    !.raised = sock = 0 \/ ~ok,
                    !.pc = IF sock = 0 \/ ~ok THEN "pause" ELSE "delay"]
  /\ backfillFrame

\* the id of the k-th older message of a chat
HistoryId(k) == [i \in 1..k |-> "h"]

\* the history messages of the chat in the store
HistoryRows(jid) ==
  {r \in store.msgs : r.jid = jid /\ \E k \in 1..HistoryDepth : r.id = HistoryId(k)}

\* During the delay after a fetch: the next older message of the chat has
\* arrived with messaging.history-set, was enqueued by processHistory and
\* persisted by a worker.
historySet ==
  /\ backfill.pc = "delay"
  /\ LET jid == Head(backfill.todo)
         k == Cardinality(HistoryRows(jid)) + 1
         oldest == getOldestMessageAnchor(store.msgs, jid)
         m == [id |-> HistoryId(k), from |-> jid, fromMe |-> FALSE,
               timestamp |-> oldest.timestamp - 1]
     IN /\ k <= HistoryDepth
        /\ store' = [msgs |-> messageUpsert(store.msgs, m),
                     chats |-> upsertChatPartial(store.chats, jid, m.timestamp)]
  /\ UNCHANGED <<up, crashes, faults, clock, logFile, syncedLen, ckptFile,
                 dlqFile, lockedFor, calls, acked, buf, ended, waiters, wpc,
                 batch, handed, hist, rpc, rOffset, rPos, rPending, ckptCur,
                 metrics>>
  /\ UNCHANGED <<sessVars, hookVars>>

\* the delay is over: the anchor is read again; the loop is left when there is
\* none or when its id is the one before, otherwise the page is counted and
\* the while condition is tested
delayEnds ==
  /\ backfill.pc = "delay"
  /\ LET newAnchor == getOldestMessageAnchor(store.msgs, Head(backfill.todo))
     IN IF newAnchor = NoAnchor \/ newAnchor.id = backfill.prevOldestId
        THEN backfill' = [backfill EXCEPT !.pc = "pause"]
        ELSE backfill' = [backfill EXCEPT
                            !.prevOldestId = newAnchor.id,
                            !.anchor = newAnchor,
                            !.page = @ + 1,
                            !.pc = IF LoopContinues(newAnchor, backfill.page + 1)
                                   THEN "fetch" ELSE "pause"]
  /\ backfillFrame

\* syncHistoryForChat has returned and the pause between chats is over: the
\* next conversation, or the end of syncHistoryOnReconnect
chatDone ==
  /\ backfill.pc = "pause"
  /\ backfill' = [backfill EXCEPT
                    !.visited = Append(@, Head(backfill.todo)),
                    !.todo = Tail(@),
                    !.pc = IF Tail(backfill.todo) = <<>> THEN "idle" ELSE "chat"]
  /\ backfillFrame

\* the first stored message of a chat in the initial store
FirstMessage(id, jid, ts) == [id |-> id, jid |-> jid, timestamp |-> ts]

\* A session that is not connected yet, on a store that holds the chats of Bob
\* and of Eve; Bob's has a message, Eve's has one or none.
InitHistory ==
  /\ up = FALSE
  /\ crashes = 0
  /\ faults = 0
  /\ clock = 0
  /\ logFile = <<>>
  /\ syncedLen = 0
  /\ ckptFile = 0
  /\ dlqFile = <<>>
  /\ \E eve \in SUBSET {FirstMessage(IdB, JidEve, 10)} :
       store = [msgs |-> {FirstMessage(IdA, JidBob, 20)} \cup eve,
                chats |-> {[jid |-> JidBob, lastMessageTimestamp |-> 20],
                           [jid |-> JidEve, lastMessageTimestamp |-> 10]}]
  /\ lockedFor = 0
  /\ calls = <<>>
  /\ acked = {}
  /\ buf = <<>>
  /\ ended = FALSE
  /\ waiters = <<>>
  /\ wpc = [w \in WorkerIds |-> "off"]
  /\ batch = [w \in WorkerIds |-> <<>>]
  /\ handed = [w \in WorkerIds |-> NoRec]
  /\ rpc = "off"
  /\ rOffset = 0
  /\ rPos = 0
  /\ rPending = NoRec
  /\ ckptCur = 0
  /\ metrics = ZeroMetrics
  /\ hist = EmptyHistory(FALSE)
  /\ InitSession
  /\ webhooks = <<>>
  /\ excludedNumbers = {}
  /\ handlers = <<>>
  /\ posts = <<>>
  /\ upserts = <<>>
  /\ backfill = NoBackfill

\* The backfill of a session that connects, is closed and is logged out.
NextHistory ==
  \/ Len(socks) < MaxHistorySocks /\ initializeCall
  \/ \E s \in 1..Len(socks) : connectionOpen(s)
  \/ \E s \in 1..Len(socks), statusCode \in ReconnectCodes :
       Len(socks) < MaxHistorySocks /\ connectionClose(s, statusCode)
  \/ syncHistoryOnReconnect
  \/ syncHistoryForChat
  \/ \E ok \in BOOLEAN : fetchMessageHistory(ok)
  \/ historySet
  \/ delayEnds
  \/ chatDone

SpecHistory == InitHistory /\ [][NextHistory]_vars

\* the jid syncHistoryForChat is running for
CurrentJid == Head(backfill.todo)

====
